---------------------------- MODULE Spec2Model ----------------------------
(***************************************************************************)
(* A model of the paired-end FASTQ demultiplexer of fastq/demux.py:        *)
(* DemultiplexWriter, the inline and dual-index workers, the worker loop   *)
(* over the shared input queue, and the supervisor's collection and        *)
(* concatenation of the per-worker shards.                                 *)
(*                                                                         *)
(* Python strings are sequences of one-character strings, dictionaries are *)
(* sequences of <<key, value>> entries in insertion order (or functions    *)
(* where the order is never observed), and a path is a tuple of strings.   *)
(***************************************************************************)
EXTENDS Integers, Sequences, FiniteSets, TLC

(***************************************************************************)
(* Bounds of the model.                                                    *)
(***************************************************************************)
\* W: the number of worker processes of the pool.
NumWorkers == 2
\* B: the number of read pairs the reader puts in one batch.
BatchSize == 2
\* The number of read pairs of the longest input the reader is given.
MaxPairs == 3
\* Q: the capacity of the bounded input queue.
QueueCap == 2

(***************************************************************************)
(* Program constants.                                                      *)
(***************************************************************************)
\* read.sequence[:20], the part of a read an adapter is aligned against.
ProbeLen == 20
\* [ACGTN]{8}: the length of each index of a dual-index barcode.
IndexLen == 8

Workers == 1 .. NumWorkers

\* DemultiplexWriter.BARCODE_NOT_MATCHED
BARCODE_NOT_MATCHED == <<"N", "O", "_", "M", "A", "T", "C", "H">>

\* Python's None where a file prefix is expected, and the empty string.
None == <<>>
EmptyStr == <<"">>

\* The truth value Python gives a prefix: None and "" are false.
Truthy(prefix) == prefix # None /\ prefix # EmptyStr

(***************************************************************************)
(* Small helpers on sequences.                                             *)
(***************************************************************************)
Max2(a, b) == IF a >= b THEN a ELSE b
Min2(a, b) == IF a <= b THEN a ELSE b

\* s[n:] of Python, n a 0-based index (the whole of s for n <= 0).
DropFirst(s, n) == IF n >= Len(s) THEN <<>> ELSE SubSeq(s, Max2(n, 0) + 1, Len(s))

\* s[:n] of Python.
TakeFirst(s, n) == SubSeq(s, 1, Min2(n, Len(s)))

\* The element of a singleton set.  A step of a loop is written
\* The({F(x) : x \in {e}}): the state x the step starts from is the value
\* The sequence s in reverse order.
Reverse(s) == [i \in DOMAIN s |-> s[Len(s) + 1 - i]]

\* of e.
The(S) == CHOOSE x \in S : TRUE

RECURSIVE SeqSum(_)
SeqSum(s) == IF s = <<>> THEN 0 ELSE Head(s) + SeqSum(Tail(s))

RECURSIVE SeqMin(_)
SeqMin(s) == IF Len(s) = 1 THEN s[1] ELSE Min2(Head(s), SeqMin(Tail(s)))

Range(s) == {s[i] : i \in DOMAIN s}

\* The keys of a dictionary in insertion order, and the value of a key
\* (dict.get: None when the key is absent).
Keys(d) == [i \in DOMAIN d |-> d[i][1]]
HasKey(d, k) == \E i \in DOMAIN d : d[i][1] = k
Lookup(d, k) == IF HasKey(d, k) THEN d[CHOOSE i \in DOMAIN d : d[i][1] = k][2] ELSE None

\* d[k] = v of Python: the value of an existing key is replaced in place, a
\* new key is appended.
DictSet(d, k, v) ==
    IF HasKey(d, k)
    THEN [i \in DOMAIN d |-> IF d[i][1] = k THEN <<k, v>> ELSE d[i]]
    ELSE Append(d, <<k, v>>)

(***************************************************************************)
(* The aligner: parasail.sg_de_stats and editdistance.eval.                *)
(***************************************************************************)
\* parasail.matrix_create("ACGTN", score, -penalty): a letter of the
\* alphabet scores `score` against itself and -penalty against another
\* letter; any other character is the wildcard, which scores 0.
Alphabet == {"A", "C", "G", "T", "N"}

\* The substitution score of two characters under the score matrix.
create_score_matrix(score, penalty, x, y) ==
    IF x \in Alphabet /\ y \in Alphabet
    THEN IF x = y THEN score ELSE 0 - penalty
    ELSE 0

\* Whether the alignment statistics count the two characters as a match: the
\* characters are compared after the matrix's mapping, so every character
\* outside the alphabet is the same wildcard.
IsMatch(x, y) ==
    IF x \in Alphabet /\ y \in Alphabet THEN x = y
    ELSE x \notin Alphabet /\ y \notin Alphabet

\* The better of two cells [h |-> score, m |-> matches]; the first on a tie.
Better(c1, c2) == IF c1.h >= c2.h THEN c1 ELSE c2

\* One row of the alignment table: acc holds the cells of columns 0 .. j-1
\* of the row of query character x, prev the row above it.
RECURSIVE SgRow(_, _, _, _, _, _)
SgRow(prev, x, ref, score, penalty, acc) ==
    IF Len(acc) > Len(ref) THEN acc
    ELSE LET j    == Len(acc)
             diag == [h |-> prev[j].h + create_score_matrix(score, penalty, x, ref[j]),
                      m |-> prev[j].m + (IF IsMatch(x, ref[j]) THEN 1 ELSE 0)]
             up   == [h |-> prev[j + 1].h - penalty, m |-> prev[j + 1].m]
             left == [h |-> acc[j].h - penalty, m |-> acc[j].m]
             best == Better(diag, Better(up, left))
         IN  SgRow(prev, x, ref, score, penalty, Append(acc, best))

\* The table of query against ref, row by row: rows holds rows 0 .. i-1.
\* Row i starts with the cost of i leading gaps, which are penalised (only
\* the end of ref is free).
RECURSIVE SgTable(_, _, _, _, _)
SgTable(rows, query, ref, score, penalty) ==
    IF Len(rows) > Len(query) THEN rows
    ELSE LET i == Len(rows)
         IN  SgTable(Append(rows, SgRow(rows[i], query[i], ref, score, penalty,
                                        <<[h |-> 0 - penalty * i, m |-> 0]>>)),
                     query, ref, score, penalty)

\* The last row of the table of query against ref.
SgLastRow(query, ref, score, penalty) ==
    SgTable(<<[j \in 1 .. Len(ref) + 1 |-> [h |-> 0 - penalty * (j - 1), m |-> 0]]>>,
            query, ref, score, penalty)[Len(query) + 1]

\* The leftmost best cell of the last row among the columns cols.
SgBestColumn(last, cols) ==
    CHOOSE c \in cols :
        \A d \in cols : last[c].h > last[d].h \/ (last[c].h = last[d].h /\ c <= d)

\* The statistics of the cell of column col of the last row.
SgCell(last, col) ==
    [score |-> last[col].h, matches |-> last[col].m, end_ref |-> col - 2]

SgResult(last, cols) == SgCell(last, SgBestColumn(last, cols))

\* parasail.sg_de_stats(query, ref, penalty, penalty, matrix): the whole of
\* query is aligned from the start of ref, what follows the alignment in ref
\* is free.  The result is the leftmost best cell of the last row: its
\* score, its number of matches and the 0-based index in ref of the last
\* aligned base.
sg_de_stats(query, ref, score, penalty) ==
    SgResult(SgLastRow(query, ref, score, penalty),
             IF Len(ref) = 0 THEN {1} ELSE 2 .. Len(ref) + 1)

\* One row of the Levenshtein table.
RECURSIVE EditRow(_, _, _, _)
EditRow(prev, x, b, acc) ==
    IF Len(acc) > Len(b) THEN acc
    ELSE LET j    == Len(acc)
             sub  == prev[j] + (IF x = b[j] THEN 0 ELSE 1)
             del  == prev[j + 1] + 1
             ins  == acc[j] + 1
         IN  EditRow(prev, x, b, Append(acc, Min2(sub, Min2(del, ins))))

RECURSIVE EditTable(_, _, _)
EditTable(rows, a, b) ==
    IF Len(rows) > Len(a) THEN rows
    ELSE LET i == Len(rows)
         IN  EditTable(Append(rows, EditRow(rows[i], a[i], b, <<i>>)), a, b)

\* editdistance.eval(a, b): the Levenshtein distance.
editdistance(a, b) ==
    EditTable(<<[j \in 1 .. Len(b) + 1 |-> j - 1]>>, a, b)[Len(a) + 1][Len(b) + 1]

(***************************************************************************)
(* Reads, read pairs and barcodes.                                         *)
(***************************************************************************)
\* A read is [name, sequence, qualities]; its name is the header without the
\* leading '@', kept as the record number the two mates share and the text
\* after the last ':'.
Read(ident, barcode, sequence) ==
    [name |-> [ident |-> ident, barcode |-> barcode],
     sequence |-> sequence,
     qualities |-> [i \in DOMAIN sequence |-> "I"]]

\* ReadPair(read1, read2): the pair is valid iff the two headers name the
\* same record.
ReadPair_valid(read1, read2) == read1.name.ident = read2.name.ident

\* ReadPair.barcode: the text after the last ':' of the header of read 1.
ReadPair_barcode(read1, read2) == read1.name.barcode

\* Sequence.reverse_complements: A<->T, C<->G, N<->N.
Complement(x) ==
    CASE x = "A" -> "T" [] x = "T" -> "A" [] x = "C" -> "G" [] x = "G" -> "C"
      [] OTHER -> x

reverse_complements(s) == [i \in DOMAIN s |-> Complement(s[Len(s) + 1 - i])]

\* re.match(IlluminaFASTQ.dual_index_pattern, barcode): the pattern
\* [ACGTN]{8}\+[ACGTN]{8} matches at the start of the barcode.
dual_index_pattern(barcode) ==
    /\ Len(barcode) >= 2 * IndexLen + 1
    /\ \A i \in 1 .. IndexLen : barcode[i] \in Alphabet
    /\ barcode[IndexLen + 1] = "+"
    /\ \A i \in IndexLen + 2 .. 2 * IndexLen + 1 : barcode[i] \in Alphabet

\* The 1-based indices of the '+' characters of a string.
Pluses(s) == {i \in DOMAIN s : s[i] = "+"}
SetMin(S) == CHOOSE x \in S : \A y \in S : x <= y

\* convert_barcode with the bug of taking the reverse complement of idx[0].
convert_barcode_i7(barcode) ==
    LET p1 == SetMin(Pluses(barcode))
        i7 == SubSeq(barcode, 1, p1 - 1)
    IN  i7 \o <<"+">> \o reverse_complements(i7)

\* IlluminaFASTQ.convert_barcode: barcode.split("+"), then
\* i7 + "+" + reverse complement of i5.
convert_barcode(barcode) ==
    LET p1   == SetMin(Pluses(barcode))
        rest == Pluses(barcode) \ {p1}
        p2   == IF rest = {} THEN Len(barcode) + 1 ELSE SetMin(rest)
        i7   == SubSeq(barcode, 1, p1 - 1)
        i5   == reverse_complements(SubSeq(barcode, p1 + 1, p2 - 1))
    IN  i7 \o <<"+">> \o i5

(***************************************************************************)
(* Counters: FASTQWorker.counts and add_count.                             *)
(***************************************************************************)
\* A counter key: "total", "matched", "unmatched", or an adapter followed by
\* "", "_1" or "_2".
Key(name, suffix) == <<name, suffix>>
K_total == Key(<<"total">>, "")
K_matched == Key(<<"matched">>, "")
K_unmatched == Key(<<"unmatched">>, "")

\* counts.get(key, 0)
Count(counts, key) == IF key \in DOMAIN counts THEN counts[key] ELSE 0

\* FASTQWorker.add_count(key, n)
add_count(counts, key, n) ==
    IF key \in DOMAIN counts
    THEN [counts EXCEPT ![key] = @ + n]
    ELSE [k \in DOMAIN counts \cup {key} |-> IF k = key THEN n ELSE counts[k]]

\* add_count(key) for each key of a sequence, in order.
RECURSIVE add_counts(_, _)
add_counts(counts, keys) ==
    IF keys = <<>> THEN counts
    ELSE The({add_counts(c, Tail(keys)) : c \in {add_count(counts, Head(keys), 1)}})

\* The empty dictionary.
EmptyCounts == [k \in {} |-> 0]

(***************************************************************************)
(* DemultiplexWorker.__init__ and the two workers' matching.               *)
(***************************************************************************)
\* An optional number is <<>> (None) or <<n>>; an error rate is <<>> (None)
\* or <<numerator, denominator>>.
DEFAULT_ERROR_RATE == <<1, 10>>
INLINE_DEFAULT_ERROR_RATE == <<2, 10>>
DEFAULT_SCORE == 1
DEFAULT_PENALTY == 10

\* round(n / 2) of Python 3: a half is rounded to the even neighbour.
RoundHalf(n) ==
    IF n % 2 = 0 THEN n \div 2
    ELSE IF ((n - 1) \div 2) % 2 = 0 THEN (n - 1) \div 2 ELSE (n + 1) \div 2

\* math.floor(len(adapter) * error_rate)
max_distance(adapter, error_rate) == (Len(adapter) * error_rate[1]) \div error_rate[2]

\* int(x) if str(x).isdigit() else default: None and negative numbers are
\* replaced by the default.
DigitOr(x, default) == IF x # <<>> /\ x[1] >= 0 THEN x[1] ELSE default

\* error_rate if error_rate else DEFAULT_ERROR_RATE: None and 0 are replaced
\* by the class's default.
ErrorRateOr(error_rate, default) ==
    IF error_rate = <<>> \/ error_rate[1] = 0 THEN default ELSE error_rate

\* Worker_init with the bug of trying the adapters in reverse order.
Worker_init_reversed(mode, barcode_dict, error_rate, score, penalty) ==
    LET adapters == Reverse(Keys(barcode_dict))
        pen      == DigitOr(penalty, DEFAULT_PENALTY)
        rate     == ErrorRateOr(error_rate,
                                IF mode = "inline" THEN INLINE_DEFAULT_ERROR_RATE
                                ELSE DEFAULT_ERROR_RATE)
        self     == [mode |-> mode, barcode_dict |-> barcode_dict,
                     adapters |-> adapters, error |-> "",
                     min_match_length |-> 0, error_rate |-> rate,
                     score |-> DigitOr(score, DEFAULT_SCORE), penalty |-> pen]
    IN  IF adapters = <<>>
        THEN [self EXCEPT !.error = "ValueError: min() arg is an empty sequence"]
        ELSE IF pen = 0
        THEN [self EXCEPT !.error = "ValueError: Mismatch penalty must be greater than 1."]
        ELSE [self EXCEPT !.min_match_length =
                              RoundHalf(SeqMin([i \in DOMAIN adapters |-> Len(adapters[i])]))]

\* Worker_init with the bug of not testing the penalty.
Worker_init_unchecked(mode, barcode_dict, error_rate, score, penalty) ==
    LET adapters == Keys(barcode_dict)
        pen      == DigitOr(penalty, DEFAULT_PENALTY)
        rate     == ErrorRateOr(error_rate,
                                IF mode = "inline" THEN INLINE_DEFAULT_ERROR_RATE
                                ELSE DEFAULT_ERROR_RATE)
        self     == [mode |-> mode, barcode_dict |-> barcode_dict,
                     adapters |-> adapters, error |-> "",
                     min_match_length |-> 0, error_rate |-> rate,
                     score |-> DigitOr(score, DEFAULT_SCORE), penalty |-> pen]
    IN  IF adapters = <<>>
        THEN [self EXCEPT !.error = "ValueError: min() arg is an empty sequence"]
        ELSE [self EXCEPT !.min_match_length =
                              RoundHalf(SeqMin([i \in DOMAIN adapters |-> Len(adapters[i])]))]

\* DemultiplexWorker.__init__ (and DemultiplexDualIndexWorker.__init__): the
\* worker's fields, or the error it raises.
Worker_init(mode, barcode_dict, error_rate, score, penalty) ==
    LET adapters == Keys(barcode_dict)
        pen      == DigitOr(penalty, DEFAULT_PENALTY)
        rate     == ErrorRateOr(error_rate,
                                IF mode = "inline" THEN INLINE_DEFAULT_ERROR_RATE
                                ELSE DEFAULT_ERROR_RATE)
        self     == [mode |-> mode, barcode_dict |-> barcode_dict,
                     adapters |-> adapters, error |-> "",
                     min_match_length |-> 0, error_rate |-> rate,
                     score |-> DigitOr(score, DEFAULT_SCORE), penalty |-> pen]
    IN  IF adapters = <<>>
        THEN [self EXCEPT !.error = "ValueError: min() arg is an empty sequence"]
        ELSE IF pen = 0
        THEN [self EXCEPT !.error = "ValueError: Mismatch penalty must be greater than 1."]
        ELSE [self EXCEPT !.min_match_length =
                              RoundHalf(SeqMin([i \in DOMAIN adapters |-> Len(adapters[i])]))]

\* The acceptance test of trim_adapters for one alignment result:
\* matches > min_match_length and distance <= max_distance, where
\* distance = (score * matches - result.score) / penalty.
Accepted(self, adapter, result) ==
    /\ ~(result.matches <= self.min_match_length)
    /\ self.score * result.matches - result.score
         <= max_distance(adapter, self.error_rate) * self.penalty

\* The inner loop of trim_adapters for one read: the adapters are tried in
\* order from the i-th on; the first accepted one is recorded and the read
\* is cut behind the last aligned base.
RECURSIVE trim_read(_, _, _)

\* trim_step with the bug of cutting the sequence and leaving the qualities.
trim_step_sequence(self, read, i, result) ==
    IF Accepted(self, self.adapters[i], result)
    THEN [matched |-> self.adapters[i],
          read |-> [read EXCEPT
                      !.sequence = DropFirst(read.sequence, result.end_ref + 1)]]
    ELSE trim_read(self, read, i + 1)

\* The body of the inner loop for the i-th adapter, whose alignment to the
\* start of the read gave result.
trim_step(self, read, i, result) ==
    IF Accepted(self, self.adapters[i], result)
    THEN [matched |-> self.adapters[i],
          read |-> [read EXCEPT
                      !.sequence = DropFirst(read.sequence, result.end_ref + 1),
                      !.qualities = DropFirst(read.qualities, result.end_ref + 1)]]
    ELSE trim_read(self, read, i + 1)

trim_read(self, read, i) ==
    IF i > Len(self.adapters) THEN [matched |-> <<>>, read |-> read]
    ELSE trim_step(self, read, i,
                   sg_de_stats(self.adapters[i], TakeFirst(read.sequence, ProbeLen),
                               self.score, self.penalty))

\* DemultiplexInlineWorker.trim_adapters
trim_adapters(self, read1, read2) ==
    <<trim_read(self, read1, 1), trim_read(self, read2, 1)>>

\* if adapter: self.add_count("%s_1" % adapter) (or "_2")
AdapterCount(adapter, suffix) ==
    IF adapter # <<>> THEN <<Key(adapter, suffix)>> ELSE <<>>

\* LongerAdapter with the bug of giving a tie to the adapter of read 1.
LongerAdapter_tie(adapter1, adapter2) ==
    IF Len(adapter1) >= Len(adapter2) THEN adapter1 ELSE adapter2

\* adapter1 if len(adapter1) > len(adapter2) else adapter2
LongerAdapter(adapter1, adapter2) ==
    IF Len(adapter1) > Len(adapter2) THEN adapter1 ELSE adapter2

\* Inline_emit with the bug of counting both reads' adapters under the
\* pair counter of the adapter instead of the "_1" and "_2" counters.
Inline_emit_both(t, adapter) ==
    IF adapter # <<>>
    THEN [error |-> "", barcode |-> adapter,
          read1 |-> t[1].read, read2 |-> t[2].read,
          counts |-> AdapterCount(t[1].matched, "") \o AdapterCount(t[2].matched, "")
                     \o <<Key(adapter, ""), K_matched>>]
    ELSE [error |-> "", barcode |-> BARCODE_NOT_MATCHED,
          read1 |-> t[1].read, read2 |-> t[2].read,
          counts |-> AdapterCount(t[1].matched, "") \o AdapterCount(t[2].matched, "")
                     \o <<K_unmatched>>]

\* The end of process_read_pair once the pair's barcode is adapter: the
\* matched or unmatched counters and the barcode the pair is written under.
Inline_emit(t, adapter) ==
    IF adapter # <<>>
    THEN [error |-> "", barcode |-> adapter,
          read1 |-> t[1].read, read2 |-> t[2].read,
          counts |-> AdapterCount(t[1].matched, "_1") \o AdapterCount(t[2].matched, "_2")
                     \o <<Key(adapter, ""), K_matched>>]
    ELSE [error |-> "", barcode |-> BARCODE_NOT_MATCHED,
          read1 |-> t[1].read, read2 |-> t[2].read,
          counts |-> AdapterCount(t[1].matched, "_1") \o AdapterCount(t[2].matched, "_2")
                     \o <<K_unmatched>>]

\* process_read_pair after trim_adapters returned t.
Inline_assign(t) == Inline_emit(t, LongerAdapter(t[1].matched, t[2].matched))

\* DemultiplexInlineWorker.process_read_pair: the barcode, the two reads and
\* the counters incremented, in order; or the error of an invalid pair.
Inline_process_read_pair(self, read1, read2) ==
    IF ~ReadPair_valid(read1, read2)
    THEN [error |-> "PairMismatch", barcode |-> <<>>, read1 |-> read1, read2 |-> read2,
          counts |-> <<>>]
    ELSE Inline_assign(trim_adapters(self, read1, read2))

\* match_adapters with the bug of accepting a distance equal to max_error.
RECURSIVE match_adapters_le(_, _, _)
match_adapters_le(self, barcode, i) ==
    IF i > Len(self.adapters) THEN <<>>
    ELSE IF editdistance(barcode, self.adapters[i])
              <= max_distance(self.adapters[i], self.error_rate)
    THEN self.adapters[i]
    ELSE match_adapters_le(self, barcode, i + 1)

\* DemultiplexDualIndexWorker.match_adapters: the first adapter, from the
\* i-th on, whose edit distance to the barcode is below its max_error.
RECURSIVE match_adapters(_, _, _)
match_adapters(self, barcode, i) ==
    IF i > Len(self.adapters) THEN <<>>
    ELSE LET adapter  == self.adapters[i]
             mismatch == editdistance(barcode, adapter)
         IN  IF mismatch < max_distance(adapter, self.error_rate)
             THEN adapter
             ELSE match_adapters(self, barcode, i + 1)

\* barcode = ReadPair(read1, read2).barcode, converted when it is a dual
\* index.
DualIndex_barcode(raw) ==
    IF dual_index_pattern(raw) THEN convert_barcode(raw) ELSE raw

\* DualIndex_emit with the bug of not counting an unmatched pair.
DualIndex_emit_nocount(read1, read2, adapter) ==
    IF adapter = <<>>
    THEN [error |-> "", barcode |-> BARCODE_NOT_MATCHED,
          read1 |-> read1, read2 |-> read2, counts |-> <<>>]
    ELSE [error |-> "", barcode |-> adapter,
          read1 |-> read1, read2 |-> read2,
          counts |-> <<K_matched, Key(adapter, "")>>]

\* The end of process_read_pair once match_adapters returned adapter.
DualIndex_emit(read1, read2, adapter) ==
    IF adapter = <<>>
    THEN [error |-> "", barcode |-> BARCODE_NOT_MATCHED,
          read1 |-> read1, read2 |-> read2, counts |-> <<K_unmatched>>]
    ELSE [error |-> "", barcode |-> adapter,
          read1 |-> read1, read2 |-> read2,
          counts |-> <<K_matched, Key(adapter, "")>>]

\* DemultiplexDualIndexWorker.process_read_pair
DualIndex_process_read_pair(self, read1, read2) ==
    IF ~ReadPair_valid(read1, read2)
    THEN [error |-> "PairMismatch", barcode |-> <<>>, read1 |-> read1, read2 |-> read2,
          counts |-> <<>>]
    ELSE DualIndex_emit(read1, read2,
                        match_adapters(self,
                                       DualIndex_barcode(ReadPair_barcode(read1, read2)),
                                       1))

\* self.process_read_pair of the worker's class.
process_read_pair(self, read1, read2) ==
    IF self.mode = "inline"
    THEN Inline_process_read_pair(self, read1, read2)
    ELSE DualIndex_process_read_pair(self, read1, read2)

(***************************************************************************)
(* DemultiplexWriter.  A file handle is named by the prefix it was opened  *)
(* for; the file system maps a prefix to the pair of files                 *)
(* prefix.R1.fastq.gz and prefix.R2.fastq.gz.                              *)
(***************************************************************************)
\* dnaio.open(r1_out, file2=r2_out, mode='w'): a new, empty, open pair.
NewFile == [open |-> TRUE, closes |-> 0, R1 |-> <<>>, R2 |-> <<>>]

\* f with the value of x set to v, x added to the domain when it is new.
FnSet(f, x, v) == [y \in DOMAIN f \cup {x} |-> IF y = x THEN v ELSE f[y]]

EmptyFiles == [x \in {} |-> NewFile]

\* DemultiplexWriter.__init__
Writer_init(barcode_dict) ==
    [barcode_dict |-> barcode_dict, dict |-> <<>>, prefix_dict |-> <<>>]

\* One iteration of the loop of DemultiplexWriter.open, for the entry
\* <<barcode, prefix>>.  st is [writer, files, error].
Writer_open_entry(st, barcode, prefix) ==
    LET w1 == IF ~Truthy(prefix)
              THEN [st.writer EXCEPT !.dict = DictSet(@, barcode, None)]
              ELSE st.writer
    IN  IF HasKey(w1.prefix_dict, prefix)
        THEN [st EXCEPT !.writer = [w1 EXCEPT !.dict =
                                       DictSet(@, barcode, Lookup(w1.prefix_dict, prefix))]]
        ELSE IF prefix = None
        THEN \* paired_end_filenames(None): None + ".R1.fastq.gz"
             [st EXCEPT !.writer = w1, !.error = "TypeError"]
        ELSE [writer |-> [w1 EXCEPT !.prefix_dict = DictSet(@, prefix, prefix),
                                    !.dict = DictSet(@, barcode, prefix)],
              files |-> FnSet(st.files, prefix, NewFile),
              error |-> ""]

\* DemultiplexWriter.open: the loop over barcode_dict.items() from the i-th
\* entry on; it stops at the first error.
RECURSIVE Writer_open_from(_, _)
Writer_open_from(st, i) ==
    IF i > Len(st.writer.barcode_dict) \/ st.error # "" THEN st
    ELSE The({Writer_open_from(x, i + 1) :
                x \in {Writer_open_entry(st, st.writer.barcode_dict[i][1],
                                         st.writer.barcode_dict[i][2])}})

Writer_open(writer, files) ==
    Writer_open_from([writer |-> writer, files |-> files, error |-> ""], 1)

\* DemultiplexWriter.close: fp.close() for every value of the dictionary,
\* from the i-th on.  A value None has no close().  st is [files, error].
RECURSIVE Writer_close_from(_, _, _)
Writer_close_from(writer, st, i) ==
    IF i > Len(writer.dict) \/ st.error # "" THEN st
    ELSE IF writer.dict[i][2] = None
    THEN [st EXCEPT !.error = "AttributeError"]
    ELSE The({Writer_close_from(writer, x, i + 1) :
                x \in {[st EXCEPT !.files[writer.dict[i][2]] =
                                     [@ EXCEPT !.open = FALSE, !.closes = @ + 1]]}})

\* close() with the bug of closing no handle.
Writer_close_none(writer, files) == [files |-> files, error |-> ""]

\* close() with the bug of closing the first value of the dictionary only.
Writer_close_first(writer, files) ==
    Writer_close_from([writer EXCEPT !.dict = TakeFirst(@, 1)],
                      [files |-> files, error |-> ""], 1)

Writer_close(writer, files) ==
    Writer_close_from(writer, [files |-> files, error |-> ""], 1)

\* DemultiplexWriter.write: [files, written, error].
Writer_write(writer, files, barcode, read1, read2) ==
    LET fp == Lookup(writer.dict, barcode)
    IN  IF fp = None
        THEN [files |-> files, written |-> FALSE, error |-> ""]
        ELSE IF ~files[fp].open
        THEN [files |-> files, written |-> FALSE, error |-> "ValueError"]
        ELSE [files |-> [files EXCEPT ![fp] = [@ EXCEPT !.R1 = Append(@, read1),
                                                        !.R2 = Append(@, read2)]],
              written |-> TRUE, error |-> ""]

(***************************************************************************)
(* The runs the model explores: barcode tables and input records.          *)
(***************************************************************************)
AD1 == <<"A", "C", "G", "T">>
AD2 == <<"G", "G", "T", "T", "C", "A">>
DI1 == <<"A", "A", "A", "A", "A", "A", "A", "A", "+",
         "G", "G", "G", "G", "G", "G", "G", "G">>
DI2 == <<"A", "C", "G", "T", "A", "C", "G", "T", "+",
         "T", "T", "T", "T", "C", "C", "C", "C">>

\* The configurations of a run: the sub-command's mode, the barcode table
\* (barcode -> output prefix, in insertion order) and the matching options.
\*   1: demux_inline with an unmatched sink;
\*   2: demux_inline without --unmatched (the prefix of NO_MATCH is None) and
\*      two barcodes that share a prefix;
\*   3: demux_barcode, which puts no NO_MATCH key in the table;
\*   4: a dual-index table whose NO_MATCH prefix is the empty string.
\* DI1 is the converted form of no input record of the runs; it stands for
\* the barcodes of a sample sheet that the input does not contain.
Configs ==
    << [id |-> 1, mode |-> "inline",
        barcode_dict |-> << <<AD1, <<"p1">> >>, <<AD2, <<"p2">> >>,
                            <<BARCODE_NOT_MATCHED, <<"un">> >> >>,
        error_rate |-> <<>>, score |-> <<>>, penalty |-> <<>>],
       [id |-> 2, mode |-> "inline",
        barcode_dict |-> << <<AD1, <<"p1">> >>, <<AD2, <<"p1">> >>,
                            <<BARCODE_NOT_MATCHED, None>> >>,
        error_rate |-> <<2, 10>>, score |-> <<1>>, penalty |-> <<10>>],
       [id |-> 3, mode |-> "dual",
        barcode_dict |-> << <<DI1, <<"d1">> >>, <<DI2, <<"d2">> >> >>,
        error_rate |-> <<2, 10>>, score |-> <<>>, penalty |-> <<>>],
       [id |-> 4, mode |-> "dual",
        barcode_dict |-> << <<DI2, <<"d2">> >>, <<BARCODE_NOT_MATCHED, EmptyStr>> >>,
        error_rate |-> <<2, 10>>, score |-> <<>>, penalty |-> <<>>] >>

\* The kinds of input record.  Record n of kind k is the pair of reads
\* InputPair(n, k):
\*   1: header barcode one substitution away from the form of DI2 before
\*      conversion; read 1 starts with AD1, read 2 with AD2;
\*   2: a header barcode that is no dual index; no read starts with an adapter;
\*   3: the two headers name different records (an invalid pair);
\*   4: a header barcode that is no dual index; read 1 starts with AD1, read 2
\*      with no adapter.
Kinds == 1 .. 4

KindBarcode(k) ==
    IF k = 1
    THEN <<"A", "C", "G", "T", "A", "C", "G", "A", "+",
           "G", "G", "G", "G", "A", "A", "A", "A">>
    ELSE <<"N", "N", "N", "N">>

KindSeq1(k) ==
    IF k \in {1, 4} THEN <<"A", "C", "G", "T", "A", "A", "C">>
    ELSE <<"T", "T", "T", "T", "T", "T", "T">>

KindSeq2(k) ==
    IF k = 1 THEN <<"G", "G", "T", "T", "C", "A", "T", "T">>
    ELSE <<"C", "C", "C", "C", "C", "C", "C">>

InputPair(n, k) ==
    <<Read(n, KindBarcode(k), KindSeq1(k)),
      Read(IF k = 3 THEN 0 - n ELSE n, KindBarcode(k), KindSeq2(k))>>

\* process_read_pair of a worker of each configuration on record 1 of each
\* kind, computed once: the result depends on the record's number only
\* through the names of the two reads, which are passed on unchanged.
Processed ==
    [c \in DOMAIN Configs |->
        [k \in Kinds |->
            process_read_pair(
                Worker_init(Configs[c].mode, Configs[c].barcode_dict,
                            Configs[c].error_rate, Configs[c].score, Configs[c].penalty),
                InputPair(1, k)[1], InputPair(1, k)[2])]]

\* self.process_read_pair(read_pair) for record n of kind k in a run of
\* configuration c.
ProcessPair(c, n, k) ==
    [Processed[c][k] EXCEPT !.read1.name.ident = InputPair(n, k)[1].name.ident,
                            !.read2.name.ident = InputPair(n, k)[2].name.ident]

(***************************************************************************)
(* The pipeline: one reader, NumWorkers workers, the supervisor.           *)
(***************************************************************************)
VARIABLES
    cfg,         \* the configuration of the run
    reader,      \* [pc, pairs, poisons]: the reader task
    in_queue,    \* the bounded input queue: batches and poisons (None); a read
                 \* pair of a batch is kept as <<n, k>>, for InputPair(n, k)
    out_queue,   \* the progress queue: the sizes of the batches processed
    pc,          \* pc[w]: where worker w is in DemultiplexWorker.start
    worker,      \* worker[w]: the fields __init__ gave worker w
    writer,      \* writer[w]: the DemultiplexWriter of worker w
    batch,       \* batch[w]: [reads, i], the batch in progress and the next index
    counts,      \* counts[w]: self.counts of worker w
    calls,       \* calls[w]: the calls of writer.write, <<record, barcode, written>>
    stats,       \* stats[w]: batch_count of worker w; entered: the with block
                 \* was entered; raised: the exception raised in the with
                 \* block; error: the exception start() ended with
    files,       \* the shard files: prefix -> file pair
    sup,         \* the supervisor: [pc, counts, prefix_dict, k, error, signals]
    output_list, \* DemultiplexProcess.output_list
    finals,      \* the final output pairs: prefix -> [R1, R2]
    csv_file,    \* the file at csv_file_path of save_statistics: [exists,
                 \* open, rows], and what the call returned or raised
    inference    \* determine_adapters(r1): [pc, size, read, counter,
                 \* barcode_counts, handed, barcode_list]

vars == <<cfg, reader, in_queue, out_queue, pc, worker, writer, batch, counts,
          calls, stats, files, sup, output_list, finals, csv_file,
          inference>>

Poison == [poison |-> TRUE, reads |-> <<>>]
Batch(reads) == [poison |-> FALSE, reads |-> reads]

\* No file at csv_file_path, and save_statistics not called.
NoCsv == [exists |-> FALSE, open |-> FALSE, rows |-> <<>>, called |-> FALSE,
          returned |-> None, error |-> ""]

\* determine_adapters not called.
NoInference == [pc |-> "idle", size |-> 0, read |-> 0, counter |-> 0,
                barcode_counts |-> <<>>, handed |-> <<>>, barcode_list |-> <<>>]

NoWorker == [mode |-> "", barcode_dict |-> <<>>, adapters |-> <<>>, error |-> "",
             min_match_length |-> 0, error_rate |-> <<>>, score |-> 0, penalty |-> 0]

Init ==
    /\ cfg \in Range(Configs)
    /\ reader = [pc |-> "idle", pairs |-> 0, poisons |-> 0]
    /\ in_queue = <<>>
    /\ out_queue = <<>>
    /\ pc = [w \in Workers |-> "new"]
    /\ worker = [w \in Workers |-> NoWorker]
    /\ writer = [w \in Workers |-> Writer_init(<<>>)]
    /\ batch = [w \in Workers |-> [reads |-> <<>>, i |-> 1]]
    /\ counts = [w \in Workers |-> EmptyCounts]
    /\ calls = [w \in Workers |-> <<>>]
    /\ stats = [w \in Workers |-> [batch_count |-> 0, entered |-> FALSE,
                                   raised |-> "", error |-> ""]]
    /\ files = EmptyFiles
    /\ sup = [pc |-> "start", counts |-> EmptyCounts, prefix_dict |-> <<>>, k |-> 1,
              error |-> "", signals |-> 0]
    /\ output_list = <<>>
    /\ finals = [x \in {} |-> [R1 |-> <<>>, R2 |-> <<>>]]
    /\ csv_file = NoCsv
    /\ inference = NoInference

Exited(w) == pc[w] \in {"returned", "failed"}

(***************************************************************************)
(* The supervisor starts the run.                                          *)
(***************************************************************************)
\* os.path.join(self.workspace, "%s_%s" % (k, "Process_%s" % i))
ShardPrefix(k, i) == <<"workspace", k, i>>

\* DemultiplexProcess.get_worker_args(i): the worker's output_dict gives
\* every key of barcode_dict a shard prefix of the worker's own.
get_worker_args(i) ==
    [j \in DOMAIN cfg.barcode_dict |->
        <<cfg.barcode_dict[j][1], ShardPrefix(cfg.barcode_dict[j][1], i)>>]

\* The workers are constructed from their arguments and started, and the
\* reader is started.
StartWorkers ==
    /\ sup.pc = "start"
    /\ output_list' = [i \in Workers |-> get_worker_args(i)]
    /\ worker' = [w \in Workers |->
                    Worker_init(cfg.mode, get_worker_args(w), cfg.error_rate,
                                cfg.score, cfg.penalty)]
    /\ pc' = [w \in Workers |-> IF worker'[w].error # "" THEN "failed" ELSE "start"]
    /\ stats' = [w \in Workers |-> [stats[w] EXCEPT !.error = worker'[w].error]]
    /\ reader' = [reader EXCEPT !.pc = "read"]
    /\ sup' = [sup EXCEPT !.pc = "running"]
    /\ UNCHANGED <<cfg, csv_file, inference, in_queue, out_queue, writer, batch, counts, calls, files, finals>>

(***************************************************************************)
(* The reader.                                                             *)
(***************************************************************************)
\* The reader reads the next batch of up to BatchSize records and puts it on
\* the input queue, blocking while the queue is full.  A batch shorter than
\* BatchSize is the last one.
ReaderPut ==
    /\ reader.pc = "read"
    /\ sup.pc = "running"
    /\ Len(in_queue) < QueueCap
    /\ \E n \in 1 .. Min2(BatchSize, MaxPairs - reader.pairs) :
       \E kinds \in [1 .. n -> Kinds] :
          /\ in_queue' = Append(in_queue,
                 Batch([j \in 1 .. n |-> <<reader.pairs + j, kinds[j]>>]))
          /\ reader' = [reader EXCEPT !.pairs = @ + n,
                                      !.pc = IF n < BatchSize THEN "poison" ELSE "read"]
    /\ UNCHANGED <<cfg, csv_file, inference, out_queue, pc, worker, writer, batch, counts, calls, stats,
                   files, sup, output_list, finals>>

\* The input ends at a batch boundary.
ReaderEOF ==
    /\ reader.pc = "read"
    /\ sup.pc = "running"
    /\ reader' = [reader EXCEPT !.pc = "poison"]
    /\ UNCHANGED <<cfg, csv_file, inference, in_queue, out_queue, pc, worker, writer, batch, counts, calls,
                   stats, files, sup, output_list, finals>>

\* After the last batch the reader puts one poison per worker.
ReaderPoison ==
    /\ reader.pc = "poison"
    /\ sup.pc = "running"
    /\ Len(in_queue) < QueueCap
    /\ in_queue' = Append(in_queue, Poison)
    /\ reader' = [reader EXCEPT !.poisons = @ + 1,
                                !.pc = IF reader.poisons + 1 = NumWorkers
                                       THEN "done" ELSE "poison"]
    /\ UNCHANGED <<cfg, csv_file, inference, out_queue, pc, worker, writer, batch, counts, calls, stats,
                   files, sup, output_list, finals>>

\* The reader stops once the supervisor has seen a fatal error.
ReaderStop ==
    /\ reader.pc \in {"read", "poison"}
    /\ sup.pc \notin {"start", "running"}
    /\ reader' = [reader EXCEPT !.pc = "done"]
    /\ UNCHANGED <<cfg, csv_file, inference, in_queue, out_queue, pc, worker, writer, batch, counts, calls,
                   stats, files, sup, output_list, finals>>

(***************************************************************************)
(* DemultiplexWorker.start: the worker loop inside the with statement.     *)
(***************************************************************************)
\* __exit__ with the bug of returning True, which suppresses the exception
\* of the with block.
Writer_exit_suppress(wr, fs) ==
    [files |-> Writer_close(wr, fs).files, error |-> Writer_close(wr, fs).error,
     suppress |-> TRUE]

\* DemultiplexWriter.__exit__: return self.close().  close() returns None,
\* so an exception raised in the with block is not suppressed.
Writer_exit(wr, fs) ==
    LET c == Writer_close(wr, fs)
    IN  [files |-> c.files, error |-> c.error, suppress |-> FALSE]

\* Worker w leaves the with block, by return (exc = "") or with exception
\* exc, when the files are fs.
LeaveWith(w, exc, fs) ==
    \E x \in {Writer_exit(writer[w], fs)} :
    \E err \in {IF x.error # "" THEN x.error ELSE IF x.suppress THEN "" ELSE exc} :
        /\ files' = x.files
        /\ pc' = [pc EXCEPT ![w] = IF err # "" THEN "failed" ELSE "returned"]
        /\ stats' = [stats EXCEPT ![w].error = err, ![w].raised = exc]

\* with DemultiplexWriter(self.barcode_dict) as writer: __enter__ opens the
\* files.  An exception of open() leaves before the with block is entered,
\* so __exit__ does not run.
WorkerOpen(w) ==
    /\ pc[w] = "start"
    /\ \E st \in {Writer_open(Writer_init(worker[w].barcode_dict), files)} :
           /\ writer' = [writer EXCEPT ![w] = st.writer]
           /\ files' = st.files
           /\ pc' = [pc EXCEPT ![w] = IF st.error # "" THEN "failed" ELSE "get"]
           /\ stats' = [stats EXCEPT ![w].error = st.error,
                                     ![w].entered = (st.error = "")]
    /\ UNCHANGED <<cfg, csv_file, inference, reader, in_queue, out_queue, worker, batch, counts, calls, sup,
                   output_list, finals>>

\* WorkerGet with the bug of putting the poison back for the other workers
\* before returning.
WorkerGet_reput(w) ==
    /\ pc[w] = "get"
    /\ in_queue # <<>>
    /\ IF Head(in_queue).poison
       THEN /\ in_queue' = Append(Tail(in_queue), Poison)
            /\ LeaveWith(w, "", files)
            /\ UNCHANGED batch
       ELSE /\ in_queue' = Tail(in_queue)
            /\ batch' = [batch EXCEPT ![w] = [reads |-> Head(in_queue).reads, i |-> 1]]
            /\ pc' = [pc EXCEPT ![w] = "batch"]
            /\ UNCHANGED <<files, stats>>
    /\ UNCHANGED <<cfg, csv_file, inference, reader, out_queue, worker, writer, counts, calls, sup,
                   output_list, finals>>

\* WorkerGet with the bug of a missing return: the poison is popped and the
\* loop goes on to the next get.
WorkerGet_noreturn(w) ==
    /\ pc[w] = "get"
    /\ in_queue # <<>>
    /\ in_queue' = Tail(in_queue)
    /\ IF Head(in_queue).poison
       THEN UNCHANGED <<batch, pc, files, stats>>
       ELSE /\ batch' = [batch EXCEPT ![w] = [reads |-> Head(in_queue).reads, i |-> 1]]
            /\ pc' = [pc EXCEPT ![w] = "batch"]
            /\ UNCHANGED <<files, stats>>
    /\ UNCHANGED <<cfg, csv_file, inference, reader, out_queue, worker, writer, counts, calls, sup,
                   output_list, finals>>

\* reads = in_queue.get(): blocks while the queue is empty.  None ends the
\* loop: the worker returns self.counts.
WorkerGet(w) ==
    /\ pc[w] = "get"
    /\ in_queue # <<>>
    /\ in_queue' = Tail(in_queue)
    /\ IF Head(in_queue).poison
       THEN /\ LeaveWith(w, "", files)
            /\ UNCHANGED batch
       ELSE /\ batch' = [batch EXCEPT ![w] = [reads |-> Head(in_queue).reads, i |-> 1]]
            /\ pc' = [pc EXCEPT ![w] = "batch"]
            /\ UNCHANGED <<files, stats>>
    /\ UNCHANGED <<cfg, csv_file, inference, reader, out_queue, worker, writer, counts, calls, sup,
                   output_list, finals>>

\* writer.write(barcode, read1, read2) of worker w for record n has had the
\* outcome wr.
PairWritten(w, n, barcode, wr) ==
    /\ calls' = [calls EXCEPT ![w] = Append(@, <<n, barcode, wr.written>>)]
    /\ IF wr.error # ""
       THEN /\ LeaveWith(w, wr.error, wr.files)
            /\ UNCHANGED batch
       ELSE /\ files' = wr.files
            /\ batch' = [batch EXCEPT ![w].i = @ + 1]
            /\ UNCHANGED <<pc, stats>>

\* process_read_pair of worker w on record n has had the outcome r.
PairProcessed(w, n, r) ==
    IF r.error # ""
    THEN /\ LeaveWith(w, r.error, files)
         /\ UNCHANGED <<batch, counts, calls>>
    ELSE /\ counts' = [counts EXCEPT ![w] = add_counts(@, r.counts)]
         /\ \E wr \in {Writer_write(writer[w], files, r.barcode, r.read1, r.read2)} :
                PairWritten(w, n, r.barcode, wr)

\* One iteration of `for read_pair in reads`: process_read_pair, then
\* writer.write.  An exception of either leaves the with block.
WorkerPair(w) ==
    /\ pc[w] = "batch"
    /\ batch[w].i <= Len(batch[w].reads)
    /\ \E r \in {ProcessPair(cfg.id, batch[w].reads[batch[w].i][1],
                               batch[w].reads[batch[w].i][2])} :
          PairProcessed(w, batch[w].reads[batch[w].i][1], r)
    /\ UNCHANGED <<cfg, csv_file, inference, reader, in_queue, out_queue, worker, writer, sup, output_list,
                   finals>>

\* fp.write of worker w fails for record n, which process_read_pair gave r.
WriteFailed(w, n, r) ==
    /\ r.error = ""
    /\ Lookup(writer[w].dict, r.barcode) # None
    /\ counts' = [counts EXCEPT ![w] = add_counts(@, r.counts)]
    /\ calls' = [calls EXCEPT ![w] = Append(@, <<n, r.barcode, FALSE>>)]
    /\ LeaveWith(w, "IOError", files)

\* The same iteration when fp.write fails with an I/O error: the pair was
\* processed and counted, nothing is written.
WorkerWriteError(w) ==
    /\ pc[w] = "batch"
    /\ batch[w].i <= Len(batch[w].reads)
    /\ \E r \in {ProcessPair(cfg.id, batch[w].reads[batch[w].i][1],
                               batch[w].reads[batch[w].i][2])} :
          WriteFailed(w, batch[w].reads[batch[w].i][1], r)
    /\ UNCHANGED <<cfg, csv_file, inference, reader, in_queue, out_queue, worker, writer, batch, sup,
                   output_list, finals>>

\* WorkerEndBatch with the bug of add_count('total'), which adds 1.
WorkerEndBatch_one(w) ==
    /\ pc[w] = "batch"
    /\ batch[w].i > Len(batch[w].reads)
    /\ counts' = [counts EXCEPT ![w] = add_count(@, K_total, 1)]
    /\ stats' = [stats EXCEPT ![w].batch_count = @ + 1]
    /\ out_queue' = Append(out_queue, Len(batch[w].reads))
    /\ batch' = [batch EXCEPT ![w] = [reads |-> <<>>, i |-> 1]]
    /\ pc' = [pc EXCEPT ![w] = "get"]
    /\ UNCHANGED <<cfg, csv_file, inference, reader, in_queue, worker, writer, calls, files, sup,
                   output_list, finals>>

\* After the loop over the batch: add_count('total', len(reads)) and
\* out_queue.put(len(reads)).
WorkerEndBatch(w) ==
    /\ pc[w] = "batch"
    /\ batch[w].i > Len(batch[w].reads)
    /\ counts' = [counts EXCEPT ![w] = add_count(@, K_total, Len(batch[w].reads))]
    /\ stats' = [stats EXCEPT ![w].batch_count = @ + 1]
    /\ out_queue' = Append(out_queue, Len(batch[w].reads))
    /\ batch' = [batch EXCEPT ![w] = [reads |-> <<>>, i |-> 1]]
    /\ pc' = [pc EXCEPT ![w] = "get"]
    /\ UNCHANGED <<cfg, csv_file, inference, reader, in_queue, worker, writer, calls, files, sup,
                   output_list, finals>>

(***************************************************************************)
(* The supervisor: collection of the results and concatenation.            *)
(***************************************************************************)
\* The sum of the workers' counter maps.
MergeCounts(cs) ==
    [k \in UNION {DOMAIN cs[w] : w \in DOMAIN cs} |->
        SeqSum([w \in DOMAIN cs |-> Count(cs[w], k)])]

\* FASTQProcessor.collect_results: the supervisor waits for every worker's
\* result and sums the counters.
FASTQProcessor_collect_results ==
    /\ sup.pc = "running"
    /\ \A w \in Workers : pc[w] = "returned"
    /\ sup' = [sup EXCEPT !.pc = "collected", !.counts = MergeCounts(counts)]
    /\ UNCHANGED <<cfg, csv_file, inference, reader, in_queue, out_queue, pc, worker, writer, batch, counts,
                   calls, stats, files, output_list, finals>>

\* The loop of prepare_concatenation over barcode_dict.items(), from the
\* i-th entry on: the shard prefixes of every worker for the barcode are
\* added to the list of the barcode's file prefix.  list(set(v)) keeps each
\* shard once and leaves the order open, so a list is kept as a set.
\* path_list = prefix_dict.get(file_prefix, [])
path_list(prefix_dict, file_prefix) ==
    IF HasKey(prefix_dict, file_prefix) THEN Lookup(prefix_dict, file_prefix) ELSE {}

\* prepare_from with the bug of starting every barcode's list anew, so that
\* of the barcodes that share a prefix the last one's shards remain.
RECURSIVE prepare_from_anew(_, _, _, _)
prepare_from_anew(barcode_dict, outputs, prefix_dict, i) ==
    IF i > Len(barcode_dict) THEN prefix_dict
    ELSE The({prepare_from_anew(barcode_dict, outputs, x, i + 1) :
                x \in {DictSet(prefix_dict, barcode_dict[i][2],
                               {Lookup(outputs[j], barcode_dict[i][1]) :
                                   j \in {n \in DOMAIN outputs :
                                            Lookup(outputs[n], barcode_dict[i][1])
                                              # None}})}})

RECURSIVE prepare_from(_, _, _, _)
prepare_from(barcode_dict, outputs, prefix_dict, i) ==
    IF i > Len(barcode_dict) THEN prefix_dict
    ELSE The({prepare_from(barcode_dict, outputs, x, i + 1) :
                x \in {DictSet(prefix_dict, barcode_dict[i][2],
                               path_list(prefix_dict, barcode_dict[i][2]) \cup
                               {Lookup(outputs[j], barcode_dict[i][1]) :
                                   j \in {n \in DOMAIN outputs :
                                            Lookup(outputs[n], barcode_dict[i][1])
                                              # None}})}})

\* DemultiplexProcess.prepare_concatenation
prepare_concatenation(barcode_dict, outputs) ==
    prepare_from(barcode_dict, outputs, <<>>, 1)

\* collect_results with the bug of not calling super().collect_results
\* first: the concatenation starts while the workers run.
collect_results_early ==
    /\ sup.pc = "running"
    /\ sup' = [sup EXCEPT !.pc = "concat", !.k = 1,
                          !.prefix_dict = prepare_concatenation(cfg.barcode_dict,
                                                                output_list)]
    /\ UNCHANGED <<cfg, csv_file, inference, reader, in_queue, out_queue, pc, worker, writer, batch, counts,
                   calls, stats, files, output_list, finals>>

\* DemultiplexProcess.collect_results, after super().collect_results(jobs)
\* has returned: prepare_concatenation, then concatenate_fastq.
collect_results ==
    /\ sup.pc = "collected"
    /\ sup' = [sup EXCEPT !.pc = "concat", !.k = 1,
                          !.prefix_dict = prepare_concatenation(cfg.barcode_dict,
                                                                output_list)]
    /\ UNCHANGED <<cfg, csv_file, inference, reader, in_queue, out_queue, pc, worker, writer, batch, counts,
                   calls, stats, files, output_list, finals>>

\* The orders in which a list made from a set can come.
RECURSIVE Orders(_)
Orders(S) ==
    IF S = {} THEN {<<>>}
    ELSE UNION {{<<x>> \o o : o \in Orders(S \ {x})} : x \in S}

\* The records of the R1 files (side = 1) or R2 files (side = 2) of the
\* shards of a list, in the list's order: what `cat` writes.
RECURSIVE Cat(_, _)
Cat(order, side) ==
    IF order = <<>> THEN <<>>
    ELSE (IF Head(order) \in DOMAIN files
          THEN IF side = 1 THEN files[Head(order)].R1 ELSE files[Head(order)].R2
          ELSE <<>>)
         \o Cat(Tail(order), side)

\* concatenate_fastq with the bug of listing the shards anew for the R2
\* files, so that the two lists may come in different orders.
concatenate_fastq_sides ==
    /\ sup.pc = "concat"
    /\ sup.k <= Len(sup.prefix_dict)
    /\ LET prefix == sup.prefix_dict[sup.k][1]
       IN  IF prefix = None
           THEN /\ sup' = [sup EXCEPT !.pc = "error", !.error = "TypeError"]
                /\ UNCHANGED finals
           ELSE /\ \E order1, order2 \in Orders(sup.prefix_dict[sup.k][2]) :
                      finals' = FnSet(finals, prefix,
                                      [R1 |-> Cat(order1, 1), R2 |-> Cat(order2, 2)])
                /\ sup' = [sup EXCEPT !.k = @ + 1]
    /\ UNCHANGED <<cfg, csv_file, inference, reader, in_queue, out_queue, pc, worker, writer, batch, counts,
                   calls, stats, files, output_list>>

\* One iteration of the loop of concatenate_fastq: the final pair of a
\* prefix is written from the prefix's shards.  paired_end_filenames(None)
\* raises a TypeError.
concatenate_fastq ==
    /\ sup.pc = "concat"
    /\ sup.k <= Len(sup.prefix_dict)
    /\ LET prefix == sup.prefix_dict[sup.k][1]
       IN  IF prefix = None
           THEN /\ sup' = [sup EXCEPT !.pc = "error", !.error = "TypeError"]
                /\ UNCHANGED finals
           ELSE /\ \E order \in Orders(sup.prefix_dict[sup.k][2]) :
                      finals' = FnSet(finals, prefix,
                                      [R1 |-> Cat(order, 1), R2 |-> Cat(order, 2)])
                /\ sup' = [sup EXCEPT !.k = @ + 1]
    /\ UNCHANGED <<cfg, csv_file, inference, reader, in_queue, out_queue, pc, worker, writer, batch, counts,
                   calls, stats, files, output_list>>

\* concatenate_fastq has gone through every prefix: the run is complete.
Finish ==
    /\ sup.pc = "concat"
    /\ sup.k > Len(sup.prefix_dict)
    /\ sup' = [sup EXCEPT !.pc = "done"]
    /\ UNCHANGED <<cfg, csv_file, inference, reader, in_queue, out_queue, pc, worker, writer, batch, counts,
                   calls, stats, files, output_list, finals>>

(***************************************************************************)
(* The supervisor after a fatal error of a worker: it drains the input     *)
(* queue, signals the remaining workers to exit and surfaces the error.    *)
(***************************************************************************)
DetectFailure ==
    /\ sup.pc = "running"
    /\ \E w \in Workers :
          /\ pc[w] = "failed"
          /\ sup' = [sup EXCEPT !.pc = "draining", !.error = stats[w].error]
    /\ UNCHANGED <<cfg, csv_file, inference, reader, in_queue, out_queue, pc, worker, writer, batch, counts,
                   calls, stats, files, output_list, finals>>

Drain ==
    /\ sup.pc = "draining"
    /\ in_queue # <<>>
    /\ in_queue' = Tail(in_queue)
    /\ UNCHANGED <<cfg, csv_file, inference, reader, out_queue, pc, worker, writer, batch, counts, calls,
                   stats, files, sup, output_list, finals>>

Drained ==
    /\ sup.pc = "draining"
    /\ in_queue = <<>>
    /\ reader.pc = "done"
    /\ sup' = [sup EXCEPT !.pc = "signalling",
                          !.signals = Cardinality({w \in Workers : ~Exited(w)})]
    /\ UNCHANGED <<cfg, csv_file, inference, reader, in_queue, out_queue, pc, worker, writer, batch, counts,
                   calls, stats, files, output_list, finals>>

Signal ==
    /\ sup.pc = "signalling"
    /\ sup.signals > 0
    /\ Len(in_queue) < QueueCap
    /\ in_queue' = Append(in_queue, Poison)
    /\ sup' = [sup EXCEPT !.signals = @ - 1]
    /\ UNCHANGED <<cfg, csv_file, inference, reader, out_queue, pc, worker, writer, batch, counts, calls,
                   stats, files, output_list, finals>>

Surface ==
    /\ sup.pc = "signalling"
    /\ sup.signals = 0
    /\ \A w \in Workers : Exited(w)
    /\ sup' = [sup EXCEPT !.pc = "error"]
    /\ UNCHANGED <<cfg, csv_file, inference, reader, in_queue, out_queue, pc, worker, writer, batch, counts,
                   calls, stats, files, output_list, finals>>

(***************************************************************************)
(* The specifications.                                                     *)
(***************************************************************************)
ReaderStep == ReaderPut \/ ReaderEOF \/ ReaderPoison \/ ReaderStop

WorkerStep(w) ==
    \/ WorkerOpen(w)
    \/ WorkerGet(w)
    \/ WorkerPair(w)
    \/ WorkerWriteError(w)
    \/ WorkerEndBatch(w)

SupervisorStep ==
    \/ StartWorkers
    \/ FASTQProcessor_collect_results
    \/ collect_results
    \/ concatenate_fastq
    \/ Finish
    \/ DetectFailure
    \/ Drain
    \/ Drained
    \/ Signal
    \/ Surface

Next == ReaderStep \/ SupervisorStep \/ \E w \in Workers : WorkerStep(w)

Spec == Init /\ [][Next]_vars

\* The configurations of the runs explored under fairness: an inline run
\* and a dual-index run.
FairConfigs == {1, 3}

FairInit == Init /\ cfg.id \in FairConfigs

\* The reader, the supervisor and every worker are processes of their own:
\* each goes on as long as it has a step it can take.
FairSpec ==
    /\ FairInit
    /\ [][Next]_vars
    /\ WF_vars(ReaderStep)
    /\ WF_vars(SupervisorStep)
    /\ \A w \in Workers : WF_vars(WorkerStep(w))

(***************************************************************************)
(* Properties of the counters and of the pairs written.                    *)
(***************************************************************************)
\* Every worker has popped its poison and returned its counters.
AllReturned == \A w \in Workers : pc[w] = "returned"

\* The calls of Writer.write of all workers, as <<worker, index>>.
AllCalls == UNION {{<<w, i>> : i \in DOMAIN calls[w]} : w \in Workers}

\* The calls of Writer.write for record n.
CallsOf(n) == {c \in AllCalls : calls[c[1]][c[2]][1] = n}

\* The number of pairs in the files of the prefixes of S.
RECURSIVE PairsIn(_)
PairsIn(S) ==
    IF S = {} THEN 0
    ELSE Len(files[CHOOSE p \in S : TRUE].R1) + PairsIn(S \ {CHOOSE p \in S : TRUE})

\* The pairs written over all output buckets, and the pairs Writer.write
\* dropped because their barcode has no handle.
PairsWritten == PairsIn(DOMAIN files)
PairsDiscarded == Cardinality({c \in AllCalls : ~calls[c[1]][c[2]][3]})

\* The merged counters of the workers.
Merged == MergeCounts(counts)

\* C1, as stated: in a complete run the number of pairs written over all
\* output buckets equals the merged total counter.
Partition_stated ==
    AllReturned => PairsWritten = Count(Merged, K_total)

\* C1, amended: in a complete run every enqueued pair is passed to
\* Writer.write exactly once, by one worker; the pairs written plus the
\* pairs dropped for want of a handle are the merged total, and the pairs
\* written alone are the total when every pair's barcode is a key of the
\* barcode table.
Partition ==
    AllReturned =>
        /\ \A n \in 1 .. reader.pairs : Cardinality(CallsOf(n)) = 1
        /\ \A c \in AllCalls : calls[c[1]][c[2]][1] \in 1 .. reader.pairs
        /\ PairsWritten + PairsDiscarded = Count(Merged, K_total)
        /\ (\A c \in AllCalls : HasKey(cfg.barcode_dict, calls[c[1]][c[2]][2]))
              => PairsWritten = Count(Merged, K_total)

\* A complete run of MaxPairs pairs over both workers, some written and some
\* dropped.
Partition_witness ==
    /\ AllReturned
    /\ reader.pairs = MaxPairs
    /\ PairsDiscarded > 0
    /\ PairsWritten > 0
    /\ \A w \in Workers : calls[w] # <<>>

\* C2: once every worker has returned on its poison, total = matched +
\* unmatched in each worker's counters and in the merged counters, in both
\* modes.
Conservation ==
    AllReturned =>
        /\ \A w \in Workers :
              Count(counts[w], K_total)
                = Count(counts[w], K_matched) + Count(counts[w], K_unmatched)
        /\ Count(Merged, K_total) = Count(Merged, K_matched) + Count(Merged, K_unmatched)
        /\ sup.pc \in {"collected", "concat", "done"} => sup.counts = Merged

\* A complete dual-index run whose merged counters hold matched and
\* unmatched pairs, collected by the supervisor.
Conservation_witness ==
    /\ AllReturned
    /\ cfg.mode = "dual"
    /\ sup.pc = "collected"
    /\ Count(sup.counts, K_matched) > 0
    /\ Count(sup.counts, K_unmatched) > 0
    /\ Count(sup.counts, K_total) = MaxPairs

\* The sum over the adapters, from the i-th on, of the pair counter of the
\* adapter.
RECURSIVE BucketSum(_, _, _)
BucketSum(cs, adapters, i) ==
    IF i > Len(adapters) THEN 0
    ELSE Count(cs, Key(adapters[i], "")) + BucketSum(cs, adapters, i + 1)

\* C3: after any sequence of processed pairs the pair counters of a
\* worker's adapters sum to its matched counter, in both modes.
BucketSumMatched ==
    \A w \in Workers :
        BucketSum(counts[w], worker[w].adapters, 1) = Count(counts[w], K_matched)

\* An inline worker has processed a pair whose two reads matched different
\* adapters and a pair that matched none.
BucketSumMatched_witness ==
    \E w \in Workers :
        /\ cfg.mode = "inline"
        /\ Count(counts[w], K_matched) > 0
        /\ Count(counts[w], K_unmatched) > 0
        /\ Count(counts[w], Key(AD1, "_1")) > 0
        /\ Count(counts[w], Key(AD2, "_2")) > 0

(***************************************************************************)
(* Termination of the workers and of the reader.                           *)
(***************************************************************************)
\* A worker has left start() with an exception.
AnyFailed == \E w \in Workers : pc[w] = "failed"

\* C4: unless a worker fails, every worker eventually pops a poison and
\* returns its counters; a worker that has returned pops nothing more, and
\* when all have returned the reader has put one poison per worker and the
\* queue holds no batch and no poison.
Termination ==
    /\ <>(AnyFailed \/ AllReturned)
    /\ [](AllReturned => in_queue = <<>> /\ reader.poisons = NumWorkers)

\* Every worker has returned after a run in which each of them processed a
\* batch.
Termination_witness ==
    /\ AllReturned
    /\ in_queue = <<>>
    /\ reader.poisons = NumWorkers
    /\ \A w \in Workers : stats[w].batch_count > 0

NoFinals == DOMAIN finals = {}

\* The handles of the Writer of worker w.
Handles(w) == {writer[w].dict[i][2] : i \in DOMAIN writer[w].dict} \ {None}

\* C5: the concatenation starts, and a final pair exists, only when every
\* worker has exited, every shard is closed and the supervisor holds the sum
\* of the workers' counters.
ShutdownOrdering ==
    (sup.pc \in {"concat", "done"} \/ ~NoFinals) =>
        /\ \A w \in Workers : Exited(w) /\ pc[w] = "returned"
        /\ \A p \in DOMAIN files : ~files[p].open
        /\ sup.counts = Merged

\* The concatenation has written a final pair from the shards of both
\* workers of a run of MaxPairs pairs.
ShutdownOrdering_witness ==
    /\ sup.pc = "concat"
    /\ \E p \in DOMAIN finals : Len(finals[p].R1) > 1
    /\ Count(sup.counts, K_total) = MaxPairs
    /\ \A w \in Workers : calls[w] # <<>>

\* C6: when an exception is raised while a worker processes a batch, the
\* worker ends with that exception, the supervisor never starts the
\* concatenation, no final pair is created, and the error the supervisor
\* surfaces is the error of a failed worker.
FailedRun ==
    (\E w \in Workers : stats[w].raised # "") =>
        /\ \A w \in Workers :
              stats[w].raised # "" => pc[w] = "failed" /\ stats[w].error = stats[w].raised
        /\ sup.pc \notin {"collected", "concat", "done"}
        /\ NoFinals
        /\ sup.pc = "error" => sup.error \in {stats[w].error : w \in Workers} \ {""}

\* A worker failed on an invalid pair after a pair was written to a shard,
\* and the supervisor has surfaced the error.
FailedRun_witness ==
    /\ \E w \in Workers : stats[w].raised = "PairMismatch"
    /\ sup.pc = "error"
    /\ sup.error = "PairMismatch"
    /\ PairsWritten > 0

\* C8: when a worker has left the with block, by return or by exception,
\* every handle its Writer opened is closed, and an exception raised in the
\* block is the exception the worker ends with.
ScopedRelease ==
    \A w \in Workers :
        (stats[w].entered /\ Exited(w)) =>
            /\ Handles(w) # {}
            /\ \A h \in Handles(w) : h \in DOMAIN files /\ ~files[h].open
            /\ stats[w].raised # "" =>
                  pc[w] = "failed" /\ stats[w].error = stats[w].raised
            /\ stats[w].raised = "" => pc[w] = "returned"

\* One worker left the with block on a write error after it wrote a pair,
\* the other returned on a poison.
ScopedRelease_witness ==
    /\ \E w \in Workers :
          /\ stats[w].raised = "IOError"
          /\ \E h \in Handles(w) : files[h].R1 # <<>>
    /\ \E w \in Workers : pc[w] = "returned" /\ stats[w].entered

\* C10, as stated: when the table maps a barcode to an empty or absent
\* prefix, a run whose workers all returned completes without error, no
\* final output pair is created for the empty prefix and the pairs of that
\* barcode are in no final output pair.
DiscardSinkEndToEnd ==
    (\E i \in DOMAIN cfg.barcode_dict : ~Truthy(cfg.barcode_dict[i][2])) =>
        /\ AllReturned => sup.pc # "error"
        /\ \A p \in DOMAIN finals : Truthy(p)
        /\ \A p \in DOMAIN finals : \A j \in DOMAIN finals[p].R1 :
              \A c \in CallsOf(finals[p].R1[j].name.ident) :
                  Truthy(Lookup(cfg.barcode_dict, calls[c[1]][c[2]][2]))

(***************************************************************************)
(* DemultiplexWriter used on its own: a client opens a Writer on a barcode *)
(* table, writes pairs under barcodes of its choice and closes it.  The    *)
(* Writer is writer[1], its state pc[1], its calls of write calls[1].      *)
(***************************************************************************)
\* The barcode tables of the client:
\*   1: no unmatched sink configured (the prefix of NO_MATCH is None);
\*   2: the prefix of NO_MATCH is the empty string;
\*   3: two barcodes share a prefix, NO_MATCH has a sink;
\*   4: no NO_MATCH key.
WriterTables ==
    << << <<AD1, <<"p1">> >>, <<BARCODE_NOT_MATCHED, None>> >>,
       << <<AD1, <<"p1">> >>, <<BARCODE_NOT_MATCHED, EmptyStr>> >>,
       << <<AD1, <<"p1">> >>, <<AD2, <<"p1">> >>, <<BARCODE_NOT_MATCHED, <<"un">> >> >>,
       << <<AD1, <<"p1">> >>, <<AD2, <<"p2">> >> >> >>

\* The barcodes the client writes under.
WriterBarcodes == {AD1, AD2, BARCODE_NOT_MATCHED}

WriterInit ==
    /\ \E t \in DOMAIN WriterTables :
          cfg = [id |-> t, mode |-> "writer", barcode_dict |-> WriterTables[t],
                 error_rate |-> <<>>, score |-> <<>>, penalty |-> <<>>]
    /\ reader = [pc |-> "idle", pairs |-> 0, poisons |-> 0]
    /\ in_queue = <<>>
    /\ out_queue = <<>>
    /\ pc = [w \in Workers |-> "new"]
    /\ worker = [w \in Workers |-> NoWorker]
    /\ writer = [w \in Workers |-> Writer_init(IF w = 1 THEN cfg.barcode_dict ELSE <<>>)]
    /\ batch = [w \in Workers |-> [reads |-> <<>>, i |-> 1]]
    /\ counts = [w \in Workers |-> EmptyCounts]
    /\ calls = [w \in Workers |-> <<>>]
    /\ stats = [w \in Workers |-> [batch_count |-> 0, entered |-> FALSE,
                                   raised |-> "", error |-> ""]]
    /\ files = EmptyFiles
    /\ sup = [pc |-> "start", counts |-> EmptyCounts, prefix_dict |-> <<>>, k |-> 1,
              error |-> "", signals |-> 0]
    /\ output_list = <<>>
    /\ finals = [x \in {} |-> [R1 |-> <<>>, R2 |-> <<>>]]
    /\ csv_file = NoCsv
    /\ inference = NoInference

\* writer.open()
ClientOpen ==
    /\ pc[1] = "new"
    /\ \E st \in {Writer_open(writer[1], files)} :
          /\ writer' = [writer EXCEPT ![1] = st.writer]
          /\ files' = st.files
          /\ pc' = [pc EXCEPT ![1] = IF st.error # "" THEN "failed" ELSE "open"]
          /\ stats' = [stats EXCEPT ![1].error = st.error]
    /\ UNCHANGED <<cfg, csv_file, inference, reader, in_queue, out_queue, worker, batch, counts, calls, sup,
                   output_list, finals>>

\* writer.write(barcode, read1, read2) for the next record, of kind 2.
ClientWrite ==
    /\ pc[1] = "open"
    /\ Len(calls[1]) < MaxPairs
    /\ \E barcode \in WriterBarcodes :
       \E wr \in {Writer_write(writer[1], files, barcode,
                                InputPair(Len(calls[1]) + 1, 2)[1],
                                InputPair(Len(calls[1]) + 1, 2)[2])} :
          /\ files' = wr.files
          /\ calls' = [calls EXCEPT ![1] =
                          Append(@, <<Len(calls[1]) + 1, barcode, wr.written>>)]
          /\ stats' = [stats EXCEPT ![1].error = wr.error]
          /\ pc' = [pc EXCEPT ![1] = IF wr.error # "" THEN "failed" ELSE "open"]
    /\ UNCHANGED <<cfg, csv_file, inference, reader, in_queue, out_queue, worker, writer, batch, counts, sup,
                   output_list, finals>>

\* writer.close(); the client may call it a second time.
ClientClose ==
    /\ pc[1] \in {"open", "closed"}
    /\ \E c \in {Writer_close(writer[1], files)} :
          /\ files' = c.files
          /\ stats' = [stats EXCEPT ![1].error = c.error]
          /\ pc' = [pc EXCEPT ![1] = IF c.error # "" THEN "failed"
                                     ELSE IF pc[1] = "open" THEN "closed"
                                     ELSE "reclosed"]
    /\ UNCHANGED <<cfg, csv_file, inference, reader, in_queue, out_queue, worker, writer, batch, counts, calls,
                   sup, output_list, finals>>

WriterNext == ClientOpen \/ ClientWrite \/ ClientClose

WriterSpec == WriterInit /\ [][WriterNext]_vars

\* The barcode has no prefix in the table of the Writer: its prefix is
\* None or empty, or the barcode is no key of the table.
NoPrefix(barcode) == ~Truthy(Lookup(writer[1].barcode_dict, barcode))

\* C9, as stated: open() raises no error and opens no file for a barcode
\* whose prefix is missing or empty, and write() under such a barcode, or
\* under a barcode absent from the table, drops the pair and changes no file.
WriterDiscard ==
    /\ pc[1] # "new" => stats[1].error # "TypeError"
    /\ \A p \in DOMAIN files : Truthy(p)
    /\ \A i \in DOMAIN calls[1] :
          NoPrefix(calls[1][i][2]) =>
              /\ ~calls[1][i][3]
              /\ \A p \in DOMAIN files : \A j \in DOMAIN files[p].R1 :
                    files[p].R1[j].name.ident # calls[1][i][1]

\* The prefixes of the Writer's table that are neither None nor empty.
NonEmptyPrefixes ==
    {writer[1].barcode_dict[i][2] : i \in {j \in DOMAIN writer[1].barcode_dict :
                                              Truthy(writer[1].barcode_dict[j][2])}}

\* open() has returned without raising.
Opened == pc[1] # "new" /\ stats[1].error # "TypeError"

\* After open(), two barcodes of the table with the same prefix have the same
\* handle.
SamePrefixSameHandle ==
    \A i, j \in DOMAIN writer[1].barcode_dict :
        writer[1].barcode_dict[i][2] = writer[1].barcode_dict[j][2]
            => Lookup(writer[1].dict, writer[1].barcode_dict[i][1])
                 = Lookup(writer[1].dict, writer[1].barcode_dict[j][1])

\* C11, as stated: after open() the number of output pairs opened is the
\* number of distinct non-empty prefixes of the barcode table, two barcodes
\* with the same prefix have the same handle, and write() never changes the
\* map from barcode to handle.
HandleSharing ==
    /\ [](Opened => /\ Cardinality(DOMAIN files) = Cardinality(NonEmptyPrefixes)
                    /\ SamePrefixSameHandle)
    /\ [][calls' # calls => writer' = writer]_vars

\* The state of the handles: which are open, and what was written to them.
HandleState(fs) == [p \in DOMAIN fs |-> [open |-> fs[p].open, R1 |-> fs[p].R1,
                                         R2 |-> fs[p].R2]]

\* C12: close() closes every handle open() opened and raises no error, also
\* when several barcodes with the same prefix lead it to the same handle; a
\* second close() raises no error and leaves the state of the handles as it
\* was.
CloseIdempotent ==
    /\ [](pc[1] \in {"closed", "reclosed"} =>
             /\ stats[1].error = ""
             /\ \A p \in DOMAIN files : ~files[p].open)
    /\ [][/\ pc[1] \in {"open", "closed"} /\ calls' = calls
              => pc'[1] \in {"closed", "reclosed"}
          /\ pc[1] = "closed" => HandleState(files') = HandleState(files)]_vars

\* The client closed twice a Writer in which two barcodes share a handle, after
\* writing to it: the shared handle was reached four times, another one twice.
CloseIdempotent_witness ==
    /\ pc[1] = "reclosed"
    /\ \E p, q \in DOMAIN files :
          /\ files[p].closes = 4 /\ files[p].R1 # <<>>
          /\ files[q].closes = 2

(***************************************************************************)
(* A worker used on its own: it is constructed from a barcode table and    *)
(* the matching options, and process_read_pair is called on read pairs.    *)
(* The worker is worker[1], its state pc[1], its counters counts[1]; each  *)
(* call is recorded in calls[1] with its input and its result.             *)
(***************************************************************************)
\* The largest number of calls of process_read_pair on one worker.
MaxCalls == 2

AD5a == <<"A", "C", "G", "T", "A">>
AD5b == <<"T", "T", "G", "C", "A">>
AD6x == <<"A", "C", "G", "T", "A", "C">>
SI8 == <<"A", "C", "G", "T", "A", "C", "G", "T">>

\* DI2 with one substitution.
DI2x == <<"A", "C", "G", "T", "A", "C", "G", "A", "+",
          "T", "T", "T", "T", "C", "C", "C", "C">>

\* The barcode tables of the workers.
InlineTable == << <<AD1, <<"p1">> >>, <<AD2, <<"p2">> >>,
                  <<BARCODE_NOT_MATCHED, <<"un">> >> >>
EqualLengthTable == << <<AD5a, <<"p1">> >>, <<AD5b, <<"p2">> >> >>
PrefixTable == << <<AD1, <<"p1">> >>, <<AD6x, <<"p2">> >> >>
DualTable == << <<DI1, <<"d1">> >>, <<DI2, <<"d2">> >> >>
SingleIndexTable == << <<SI8, <<"d1">> >> >>
NearTable == << <<DI2x, <<"d1">> >>, <<DI2, <<"d2">> >> >>

\* A worker's class and the arguments of its constructor.
WorkerArgs(id, mode, barcode_dict, error_rate, score, penalty) ==
    [id |-> id, mode |-> mode, barcode_dict |-> barcode_dict,
     error_rate |-> error_rate, score |-> score, penalty |-> penalty]

\* The workers constructed:
\*    1: inline, every option left to its default;
\*    2: inline, two adapters of length 5, error_rate 0.4;
\*    3: inline, an adapter that is the start of the next one;
\*    4: inline, error_rate 0;
\*    5: inline, penalty 0;
\*    6: inline, penalty -1 and score 2;
\*    7: inline, error_rate 1.5;
\*    8: inline, error_rate -0.1;
\*    9: dual index, error_rate 0.2;
\*   10: dual index, every option left to its default (error_rate 0.1);
\*   11: dual index, a single index of length 8, defaults;
\*   12: dual index, error_rate 0;
\*   13: dual index, penalty 0;
\*   14: dual index, error_rate 0.05;
\*   15: dual index, two adapters one substitution apart, error_rate 0.2.
WorkerConfigs ==
    << WorkerArgs(1, "inline", InlineTable, <<>>, <<>>, <<>>),
       WorkerArgs(2, "inline", EqualLengthTable, <<4, 10>>, <<>>, <<>>),
       WorkerArgs(3, "inline", PrefixTable, <<>>, <<>>, <<>>),
       WorkerArgs(4, "inline", InlineTable, <<0, 1>>, <<>>, <<>>),
       WorkerArgs(5, "inline", InlineTable, <<>>, <<>>, <<0>>),
       WorkerArgs(6, "inline", InlineTable, <<>>, <<2>>, <<0 - 1>>),
       WorkerArgs(7, "inline", InlineTable, <<3, 2>>, <<>>, <<>>),
       WorkerArgs(8, "inline", InlineTable, <<0 - 1, 10>>, <<>>, <<>>),
       WorkerArgs(9, "dual", DualTable, <<2, 10>>, <<>>, <<>>),
       WorkerArgs(10, "dual", DualTable, <<>>, <<>>, <<>>),
       WorkerArgs(11, "dual", SingleIndexTable, <<>>, <<>>, <<>>),
       WorkerArgs(12, "dual", DualTable, <<0, 1>>, <<>>, <<>>),
       WorkerArgs(13, "dual", DualTable, <<>>, <<>>, <<0>>),
       WorkerArgs(14, "dual", DualTable, <<1, 20>>, <<>>, <<>>),
       WorkerArgs(15, "dual", NearTable, <<2, 10>>, <<>>, <<>>) >>

\* The sequences of the reads:
\*    1: starts with AD1;
\*    2: starts with AD2;
\*    3: AD2 with one substitution;
\*    4: AD2 with two substitutions;
\*    5: starts with no adapter;
\*    6: starts with AD1 and with AD6x;
\*    7: starts with AD5a;
\*    8: starts with AD5b;
\*    9: AD5a with two substitutions;
\*   10: starts with AD2 and is longer than the probe;
\*   11: AD2 with one base deleted;
\*   12: the letters of NO_MATCH where NO_MATCH has letters of the alphabet.
WorkerSeqs ==
    << <<"A", "C", "G", "T", "T", "T", "T", "T">>,
       <<"G", "G", "T", "T", "C", "A", "C", "C">>,
       <<"G", "G", "T", "A", "C", "A", "C", "C">>,
       <<"G", "G", "A", "A", "C", "A", "C", "C">>,
       <<"T", "T", "T", "T", "T", "T", "T", "T">>,
       <<"A", "C", "G", "T", "A", "C", "G", "G">>,
       <<"A", "C", "G", "T", "A", "C", "C">>,
       <<"T", "T", "G", "C", "A", "G", "G">>,
       <<"A", "C", "T", "T", "C", "G", "G">>,
       <<"G", "G", "T", "T", "C", "A", "A", "C", "G", "T", "A", "C", "G", "T", "A", "C", "G", "T", "A", "C", "G", "T", "A", "C">>,
       <<"G", "G", "T", "C", "A", "C", "C">>,
       <<"N", "T", "T", "T", "A", "T", "C", "T">> >>

\* The barcodes of the headers:
\*   1: converts to DI2;
\*   2: one substitution away;
\*   3: two substitutions away;
\*   4: three substitutions away;
\*   5: DI2 itself, which converts to another word;
\*   6: no dual index: equal to SI8;
\*   7: no dual index, no adapter;
\*   8: converts to DI1;
\*   9: a dual index whose i5 is its own reverse complement.
WorkerBarcodes ==
    << <<"A", "C", "G", "T", "A", "C", "G", "T", "+", "G", "G", "G", "G", "A", "A", "A", "A">>,
       <<"A", "C", "G", "T", "A", "C", "G", "A", "+", "G", "G", "G", "G", "A", "A", "A", "A">>,
       <<"A", "C", "G", "T", "A", "C", "A", "A", "+", "G", "G", "G", "G", "A", "A", "A", "A">>,
       <<"A", "C", "G", "T", "A", "A", "A", "A", "+", "G", "G", "G", "G", "A", "A", "A", "A">>,
       <<"A", "C", "G", "T", "A", "C", "G", "T", "+", "T", "T", "T", "T", "C", "C", "C", "C">>,
       <<"A", "C", "G", "T", "A", "C", "G", "T">>,
       <<"N", "N", "N", "N">>,
       <<"A", "A", "A", "A", "A", "A", "A", "A", "+", "C", "C", "C", "C", "C", "C", "C", "C">>,
       <<"A", "A", "A", "A", "A", "A", "A", "A", "+", "A", "C", "G", "T", "A", "C", "G", "T">> >>

\* The read pairs: <<header barcode, sequence of read 1, sequence of read 2>>.
WorkerInputs ==
    << <<1, 1, 5>>, <<2, 5, 2>>, <<3, 1, 2>>, <<4, 2, 1>>, <<5, 5, 5>>, <<6, 3, 5>>,
       <<7, 4, 5>>, <<8, 6, 6>>, <<1, 7, 8>>, <<2, 9, 5>>, <<1, 10, 3>>, <<6, 11, 11>>,
       <<7, 12, 5>>, <<9, 5, 5>> >>

\* A read whose quality values tell the positions apart.
WorkerRead(ident, barcode, sequence) ==
    [Read(ident, barcode, sequence) EXCEPT !.qualities = [i \in DOMAIN sequence |-> i]]

\* The read pairs, built once.
WorkerPairs ==
    [k \in DOMAIN WorkerInputs |->
        <<WorkerRead(k, WorkerBarcodes[WorkerInputs[k][1]], WorkerSeqs[WorkerInputs[k][2]]),
          WorkerRead(k, WorkerBarcodes[WorkerInputs[k][1]], WorkerSeqs[WorkerInputs[k][3]])>>]

\* The k-th read pair.
WorkerPairOf(k) == WorkerPairs[k]

\* The worker of the c-th configuration, as its constructor leaves it.
WorkerOf(c) ==
    Worker_init(WorkerConfigs[c].mode, WorkerConfigs[c].barcode_dict,
                WorkerConfigs[c].error_rate, WorkerConfigs[c].score,
                WorkerConfigs[c].penalty)

\* process_read_pair of the worker of each configuration on each read pair,
\* computed once.
WorkerProcessed ==
    [c \in DOMAIN WorkerConfigs |->
        [k \in DOMAIN WorkerInputs |->
            process_read_pair(WorkerOf(c), WorkerPairOf(k)[1], WorkerPairOf(k)[2])]]

WorkerInit ==
    /\ cfg \in Range(WorkerConfigs)
    /\ reader = [pc |-> "idle", pairs |-> 0, poisons |-> 0]
    /\ in_queue = <<>>
    /\ out_queue = <<>>
    /\ pc = [w \in Workers |-> "new"]
    /\ worker = [w \in Workers |-> NoWorker]
    /\ writer = [w \in Workers |-> Writer_init(<<>>)]
    /\ batch = [w \in Workers |-> [reads |-> <<>>, i |-> 1]]
    /\ counts = [w \in Workers |-> EmptyCounts]
    /\ calls = [w \in Workers |-> <<>>]
    /\ stats = [w \in Workers |-> [batch_count |-> 0, entered |-> FALSE,
                                   raised |-> "", error |-> ""]]
    /\ files = EmptyFiles
    /\ sup = [pc |-> "start", counts |-> EmptyCounts, prefix_dict |-> <<>>, k |-> 1,
              error |-> "", signals |-> 0]
    /\ output_list = <<>>
    /\ finals = [x \in {} |-> [R1 |-> <<>>, R2 |-> <<>>]]
    /\ csv_file = NoCsv
    /\ inference = NoInference

\* The constructor of the worker's class: it leaves the worker ready, or
\* raises.
WorkerConstruct ==
    /\ pc[1] = "new"
    /\ \E self \in {WorkerOf(cfg.id)} :
          /\ worker' = [worker EXCEPT ![1] = self]
          /\ stats' = [stats EXCEPT ![1].error = self.error]
          /\ pc' = [pc EXCEPT ![1] = IF self.error # "" THEN "failed" ELSE "ready"]
    /\ UNCHANGED <<cfg, csv_file, inference, reader, in_queue, out_queue, writer, batch, counts, calls, files,
                   sup, output_list, finals>>

\* self.process_read_pair(read_pair) on the k-th read pair; the call is
\* recorded as <<k, result>>.
WorkerCall ==
    /\ pc[1] = "ready"
    /\ Len(calls[1]) < MaxCalls
    /\ \E k \in DOMAIN WorkerInputs :
       \E r \in {WorkerProcessed[cfg.id][k]} :
          /\ calls' = [calls EXCEPT ![1] = Append(@, <<k, r>>)]
          /\ counts' = [counts EXCEPT ![1] = add_counts(@, r.counts)]
    /\ UNCHANGED <<cfg, csv_file, inference, reader, in_queue, out_queue, pc, worker, writer, batch, stats,
                   files, sup, output_list, finals>>

WorkerNext == WorkerConstruct \/ WorkerCall

WorkerSpec == WorkerInit /\ [][WorkerNext]_vars

\* The adapter a call's result counted under the suffix "_1" or "_2": the
\* adapter matched by read 1 or by read 2, empty when there is none.
MatchedBy(r, suffix) ==
    IF \E i \in DOMAIN r.counts : r.counts[i][2] = suffix
    THEN r.counts[CHOOSE i \in DOMAIN r.counts : r.counts[i][2] = suffix][1]
    ELSE <<>>

\* The adapters of the tables of the workers of a class.
AdaptersOf(mode) ==
    UNION {Range(Keys(WorkerConfigs[c].barcode_dict)) :
             c \in {d \in DOMAIN WorkerConfigs : WorkerConfigs[d].mode = mode}}

\* The scores the workers are given, and the default.
ProbeScores ==
    {DEFAULT_SCORE} \cup {WorkerConfigs[c].score[1] :
                             c \in {d \in DOMAIN WorkerConfigs : WorkerConfigs[d].score # <<>>}}

\* The alignments of the inline adapters against the first 20 bases of the
\* sequences, under the scores of the workers and the default penalty,
\* computed once.
ProbeAlignments ==
    [a \in AdaptersOf("inline") |->
        [s \in DOMAIN WorkerSeqs |->
            [sc \in ProbeScores |->
                sg_de_stats(a, TakeFirst(WorkerSeqs[s], ProbeLen), sc, DEFAULT_PENALTY)]]]

\* The sequences a table of alignments is kept for.
ProbeSeqs == Range(WorkerSeqs)

\* The alignment of adapter a against the first 20 bases of a read, under the
\* score and the penalty of the worker.
ProbeAlignment(a, read) ==
    IF /\ worker[1].penalty = DEFAULT_PENALTY
       /\ worker[1].score \in ProbeScores
       /\ a \in DOMAIN ProbeAlignments
       /\ read.sequence \in ProbeSeqs
    THEN ProbeAlignments[a][CHOOSE s \in DOMAIN WorkerSeqs : WorkerSeqs[s] = read.sequence]
                        [worker[1].score]
    ELSE sg_de_stats(a, TakeFirst(read.sequence, ProbeLen), worker[1].score,
                     worker[1].penalty)

\* The canonical form of a header barcode: i7, '+' and the reverse
\* complement of i5 for a dual index, the barcode itself otherwise.
Canonical(q) ==
    IF dual_index_pattern(q)
    THEN [i \in DOMAIN q |-> IF i <= IndexLen + 1 THEN q[i]
                             ELSE Complement(q[Len(q) + IndexLen + 2 - i])]
    ELSE q

\* The edit distances of the canonical header barcodes to the dual-index
\* adapters, computed once.
EditDistances ==
    [q \in {Canonical(b) : b \in Range(WorkerBarcodes)} |->
        [a \in AdaptersOf("dual") |-> editdistance(q, a)]]

\* edit(q, a)
EditDistance(q, a) ==
    IF q \in DOMAIN EditDistances /\ a \in DOMAIN EditDistances[q]
    THEN EditDistances[q][a]
    ELSE editdistance(q, a)

\* round(min_k |adapter_k| / 2) over the keys of the barcode table.
TableMinMatch ==
    RoundHalf(SetMin({Len(cfg.barcode_dict[i][1]) : i \in DOMAIN cfg.barcode_dict}))

\* floor(|a| * error_rate) for the error rate the worker runs with.
MaxErrors(a) == (Len(a) * worker[1].error_rate[1]) \div worker[1].error_rate[2]

\* The acceptance test for adapter a, whose alignment is al: the distance
\* (score * matches - al.score) / penalty is compared after multiplying both
\* sides by the penalty, which is positive.
PassesTest(a, al) ==
    /\ al.matches > TableMinMatch
    /\ worker[1].score * al.matches - al.score <= MaxErrors(a) * worker[1].penalty

\* The suffix of s that starts at the 0-based index n.
Suffix(s, n) == [j \in 1 .. Len(s) - n |-> s[j + n]]

\* Read out is read in, cut behind the alignment al.
CutBehind(in, out, al) ==
    /\ out.sequence = Suffix(in.sequence, al.end_ref + 1)
    /\ out.qualities = Suffix(in.qualities, al.end_ref + 1)
    /\ Len(out.sequence) = Len(out.qualities)
    /\ out.name = in.name

\* What the claim says of one read, given in, returned as out and matched by
\* adapter a (empty when no adapter matched it).
TrimmedAsStated(in, out, a) ==
    IF a # <<>>
    THEN /\ PassesTest(a, ProbeAlignment(a, in))
         /\ CutBehind(in, out, ProbeAlignment(a, in))
    ELSE /\ out = in
         /\ \A i \in DOMAIN cfg.barcode_dict :
               ~PassesTest(cfg.barcode_dict[i][1],
                           ProbeAlignment(cfg.barcode_dict[i][1], in))

\* C13: a read of an inline worker is matched by an adapter that passes the
\* acceptance test (matches > min_match_length and distance <= floor(|a| *
\* error_rate)) and by none iff no adapter passes it; a matched read has its
\* sequence and its qualities replaced by the suffix from end_ref + 1 and
\* keeps its header; an unmatched read is returned unchanged.
InlineAcceptance ==
    cfg.mode = "inline" =>
        \A c \in DOMAIN calls[1] :
            /\ TrimmedAsStated(WorkerPairOf(calls[1][c][1])[1], calls[1][c][2].read1,
                               MatchedBy(calls[1][c][2], "_1"))
            /\ TrimmedAsStated(WorkerPairOf(calls[1][c][1])[2], calls[1][c][2].read2,
                               MatchedBy(calls[1][c][2], "_2"))

\* A default inline worker was given the pair whose read 1 starts with AD2
\* with one substitution, and then the pair whose reads start with AD2 with a
\* base deleted: read 1 was matched and cut both times, read 2 of the first
\* pair was left as it was.
InlineAcceptance_witness ==
    /\ cfg.id = 1 /\ Len(calls[1]) = 2
    /\ calls[1][1][1] = 6 /\ calls[1][2][1] = 12
    /\ MatchedBy(calls[1][1][2], "_1") = AD2
    /\ Len(calls[1][1][2].read1.sequence) = 2
    /\ calls[1][1][2].read2 = WorkerPairOf(6)[2]
    /\ MatchedBy(calls[1][2][2], "_1") = AD2
    /\ calls[1][2][2].read1.qualities = <<6, 7>>

\* The position of adapter a in the barcode table.
TableIndex(a) == CHOOSE i \in DOMAIN cfg.barcode_dict : cfg.barcode_dict[i][1] = a

\* The test of a dual-index worker for header barcode q and adapter a.
PassesEdit(q, a) == EditDistance(q, a) < MaxErrors(a)

\* Adapter a, recorded for read in of an inline worker and returned as out,
\* is the first of the table that passes the test, and the read was cut
\* behind the alignment of a and nowhere else.
FirstInline(in, out, a) ==
    a # <<>> =>
        /\ PassesTest(a, ProbeAlignment(a, in))
        /\ \A i \in 1 .. TableIndex(a) - 1 :
              ~PassesTest(cfg.barcode_dict[i][1],
                          ProbeAlignment(cfg.barcode_dict[i][1], in))
        /\ out.sequence = Suffix(in.sequence, ProbeAlignment(a, in).end_ref + 1)

\* Adapter a, recorded for header barcode q by a dual-index worker, is the
\* first of the table that passes the test.
FirstDual(q, a) ==
    a # BARCODE_NOT_MATCHED =>
        /\ PassesEdit(q, a)
        /\ \A i \in 1 .. TableIndex(a) - 1 : ~PassesEdit(q, cfg.barcode_dict[i][1])

\* C14: the adapter recorded for a read (inline) or for a header barcode
\* (dual index) is the first adapter, in the insertion order of the table,
\* that passes the acceptance test, whatever later adapters would do; an
\* inline read is cut once.
FirstMatchWins ==
    \A c \in DOMAIN calls[1] :
        IF cfg.mode = "inline"
        THEN /\ FirstInline(WorkerPairOf(calls[1][c][1])[1], calls[1][c][2].read1,
                            MatchedBy(calls[1][c][2], "_1"))
             /\ FirstInline(WorkerPairOf(calls[1][c][1])[2], calls[1][c][2].read2,
                            MatchedBy(calls[1][c][2], "_2"))
        ELSE FirstDual(DualIndex_barcode(WorkerPairOf(calls[1][c][1])[1].name.barcode),
                       calls[1][c][2].barcode)

\* A read that starts with AD6x was given to the inline worker whose table
\* has AD1 before AD6x: both pass, AD1 was recorded and four bases were cut.
\* Or a header that converts to DI2 was given to the dual-index worker whose
\* table has DI2x before DI2: both pass, DI2x was recorded.
FirstMatchWins_witness ==
    /\ Len(calls[1]) = 1
    /\ \/ /\ cfg.id = 3 /\ calls[1][1][1] = 8
          /\ PassesTest(AD6x, ProbeAlignment(AD6x, WorkerPairOf(8)[1]))
          /\ MatchedBy(calls[1][1][2], "_1") = AD1
          /\ Len(calls[1][1][2].read1.sequence) = 4
       \/ /\ cfg.id = 15 /\ calls[1][1][1] = 1
          /\ PassesEdit(DI2, DI2)
          /\ calls[1][1][2].barcode = DI2x

\* The positions in the table of the adapters that pass the test on a read.
Passing(in) ==
    {i \in DOMAIN cfg.barcode_dict :
        PassesTest(cfg.barcode_dict[i][1], ProbeAlignment(cfg.barcode_dict[i][1], in))}

\* The adapter matched by a read: the first that passes, empty when none does.
FirstPassing(in) ==
    IF Passing(in) = {} THEN <<>> ELSE cfg.barcode_dict[SetMin(Passing(in))][1]

\* How many times a call incremented the counter key.
Increments(r, key) == Cardinality({i \in DOMAIN r.counts : r.counts[i] = key})

\* What the claim says of a call with result r, whose reads matched a1 and
\* a2 and whose pair therefore has barcode b.
CountedAsStated(r, a1, a2, b) ==
    /\ \A i \in DOMAIN r.counts :
          /\ r.counts[i][2] = "_1" => a1 # <<>> /\ r.counts[i][1] = a1
          /\ r.counts[i][2] = "_2" => a2 # <<>> /\ r.counts[i][1] = a2
          /\ r.counts[i][2] = "" => r.counts[i] \in {Key(b, ""), K_matched, K_unmatched}
    /\ a1 # <<>> => Increments(r, Key(a1, "_1")) = 1
    /\ a2 # <<>> => Increments(r, Key(a2, "_2")) = 1
    /\ IF b # <<>>
       THEN /\ Increments(r, Key(b, "")) = 1 /\ Increments(r, K_matched) = 1
            /\ Increments(r, K_unmatched) = 0
            /\ r.barcode = b
       ELSE /\ Increments(r, K_unmatched) = 1 /\ Increments(r, K_matched) = 0
            /\ r.barcode = BARCODE_NOT_MATCHED

\* The pair's barcode: a1 if |a1| > |a2|, a2 otherwise.
EffectiveBarcode(a1, a2) == IF Len(a1) > Len(a2) THEN a1 ELSE a2

\* C15: an inline worker increments a1_1 iff read 1 matched an adapter a1 and
\* a2_2 iff read 2 matched a2; the pair's barcode is a1 if |a1| > |a2| and a2
\* otherwise; a non-empty barcode and `matched` are incremented by one each
\* and the pair is emitted under the barcode, otherwise `unmatched` is
\* incremented and the pair is emitted under NO_MATCH.  The counters of the
\* worker are the sums of the increments of its calls.
InlineBarcode ==
    cfg.mode = "inline" =>
        /\ \A c \in DOMAIN calls[1] :
              CountedAsStated(calls[1][c][2],
                              FirstPassing(WorkerPairOf(calls[1][c][1])[1]),
                              FirstPassing(WorkerPairOf(calls[1][c][1])[2]),
                              EffectiveBarcode(FirstPassing(WorkerPairOf(calls[1][c][1])[1]),
                                               FirstPassing(WorkerPairOf(calls[1][c][1])[2])))
        /\ \A key \in DOMAIN counts[1] :
              counts[1][key] = SeqSum([c \in DOMAIN calls[1] |->
                                          Increments(calls[1][c][2], key)])

\* The worker with two adapters of length 5 was given the pair whose read 1
\* starts with the first and whose read 2 starts with the second: the pair
\* went to the second.  Then it was given a pair that matches neither.
InlineBarcode_witness ==
    /\ cfg.id = 2 /\ Len(calls[1]) = 2
    /\ calls[1][1][1] = 9 /\ calls[1][2][1] = 5
    /\ FirstPassing(WorkerPairOf(9)[1]) = AD5a
    /\ FirstPassing(WorkerPairOf(9)[2]) = AD5b
    /\ calls[1][1][2].barcode = AD5b
    /\ counts[1][Key(AD5a, "_1")] = 1 /\ counts[1][Key(AD5b, "")] = 1
    /\ calls[1][2][2].barcode = BARCODE_NOT_MATCHED
    /\ counts[1][K_unmatched] = 1 /\ counts[1][K_matched] = 1

\* The adapters of the table that header barcode q passes the test against.
PassingEdit(q) ==
    {i \in DOMAIN cfg.barcode_dict : PassesEdit(q, cfg.barcode_dict[i][1])}

\* What the claim says of a call of a dual-index worker on the pair in, with
\* result r and canonical header barcode q.
AssignedAsStated(in, r, q) ==
    /\ r.read1 = in[1] /\ r.read2 = in[2]
    /\ IF PassingEdit(q) # {}
       THEN /\ r.barcode \in {cfg.barcode_dict[i][1] : i \in PassingEdit(q)}
            /\ r.counts \in {<<K_matched, Key(r.barcode, "")>>,
                             <<Key(r.barcode, ""), K_matched>>}
       ELSE /\ r.barcode = BARCODE_NOT_MATCHED
            /\ r.counts = <<K_unmatched>>

ValidRate(error_rate) ==
    error_rate = <<>> \/ (error_rate[1] > 0 /\ error_rate[1] <= error_rate[2])

\* The header barcode of the k-th read pair is, in canonical form, an adapter
\* of the table.
ExactHeader(k) ==
    \E i \in DOMAIN cfg.barcode_dict :
        Canonical(WorkerPairOf(k)[1].name.barcode) = cfg.barcode_dict[i][1]

\* C17, as stated: when a dual-index worker with a valid error_rate has only
\* processed pairs whose header barcode equals an adapter, `matched` is the
\* number of pairs processed and `unmatched` is 0.
RoundTripDual ==
    (/\ cfg.mode = "dual" /\ ValidRate(cfg.error_rate)
     /\ \A c \in DOMAIN calls[1] : ExactHeader(calls[1][c][1]))
        => /\ Count(counts[1], K_matched) = Len(calls[1])
           /\ Count(counts[1], K_unmatched) = 0

\* The read in of an inline worker, matched by adapter a, matches it with
\* distance 0: score * matches - alignment score is 0.
ExactInline(in, a) ==
    a # <<>> =>
        worker[1].score * ProbeAlignment(a, in).matches - ProbeAlignment(a, in).score = 0

\* C18, as stated: a worker configured with error_rate = 0 accepts a read
\* (inline) or a header barcode (dual index) only at distance 0 from the
\* adapter.
ZeroErrorRate ==
    (cfg.error_rate # <<>> /\ cfg.error_rate[1] = 0) =>
        \A c \in DOMAIN calls[1] :
            IF cfg.mode = "inline"
            THEN /\ ExactInline(WorkerPairOf(calls[1][c][1])[1],
                                MatchedBy(calls[1][c][2], "_1"))
                 /\ ExactInline(WorkerPairOf(calls[1][c][1])[2],
                                MatchedBy(calls[1][c][2], "_2"))
            ELSE calls[1][c][2].barcode # BARCODE_NOT_MATCHED =>
                    editdistance(Canonical(WorkerPairOf(calls[1][c][1])[1].name.barcode),
                                 calls[1][c][2].barcode) = 0

\* C19: the constructor of a worker given penalty = 0 raises a configuration
\* error, so that the worker processes no read, and every worker whose
\* constructor returned has a penalty of at least 1.
PenaltyValidation ==
    /\ cfg.penalty = <<0>> =>
          /\ pc[1] \in {"new", "failed"}
          /\ calls[1] = <<>>
          /\ pc[1] = "failed" =>
                stats[1].error = "ValueError: Mismatch penalty must be greater than 1."
    /\ pc[1] = "ready" => worker[1].penalty >= 1

\* The constructor was called with penalty = 0 and raised.
PenaltyValidation_witness ==
    /\ cfg.penalty = <<0>>
    /\ pc[1] = "failed"
    /\ stats[1].error # ""

\* C20, as stated: the constructor of a worker given an error_rate outside
\* (0, 1] raises a configuration error: no such worker is ever ready to
\* process a read, with the error_rate given or with a default in its place.
ErrorRateValidation ==
    (cfg.error_rate # <<>> /\ ~ValidRate(cfg.error_rate)) =>
        /\ pc[1] \in {"new", "failed"}
        /\ pc[1] = "failed" => stats[1].error # ""
        /\ calls[1] = <<>>


(***************************************************************************)
(* DemultiplexInline.save_statistics, called on a process whose run is     *)
(* over: sup.counts are the merged counters (self.counts), the adapters    *)
(* are the keys of the barcode table (self.adapters).                      *)
(***************************************************************************)
\* The tables of the processes whose statistics are saved: the table of the
\* first and of the third worker configuration.
StatsConfigs == {1, 3}

\* The counters of a worker that processed one batch, from its i-th pair on:
\* the counters of each pair, then add_count('total', len(reads)).
RECURSIVE BatchCounts(_, _, _, _)
BatchCounts(c, reads, i, acc) ==
    IF i > Len(reads) THEN add_count(acc, K_total, Len(reads))
    ELSE BatchCounts(c, reads, i + 1, add_counts(acc, WorkerProcessed[c][reads[i]].counts))

\* The merged counters of the runs of configuration c: no batch at all (an
\* empty input), or one batch of up to MaxCalls pairs, which may be empty.
StatsCounts(c) ==
    {EmptyCounts} \cup
    {BatchCounts(c, reads, 1, EmptyCounts) :
        reads \in UNION {[1 .. n -> DOMAIN WorkerInputs] : n \in 0 .. MaxCalls}}

StatsInit ==
    /\ cfg \in {WorkerConfigs[c] : c \in StatsConfigs}
    /\ reader = [pc |-> "done", pairs |-> 0, poisons |-> 0]
    /\ in_queue = <<>>
    /\ out_queue = <<>>
    /\ pc = [w \in Workers |-> "returned"]
    /\ worker = [w \in Workers |-> NoWorker]
    /\ writer = [w \in Workers |-> Writer_init(<<>>)]
    /\ batch = [w \in Workers |-> [reads |-> <<>>, i |-> 1]]
    /\ counts = [w \in Workers |-> EmptyCounts]
    /\ calls = [w \in Workers |-> <<>>]
    /\ stats = [w \in Workers |-> [batch_count |-> 0, entered |-> FALSE,
                                   raised |-> "", error |-> ""]]
    /\ files = EmptyFiles
    /\ \E c \in StatsCounts(cfg.id) :
          sup = [pc |-> "done", counts |-> c, prefix_dict |-> <<>>, k |-> 1,
                 error |-> "", signals |-> 0]
    /\ output_list = <<>>
    /\ finals = [x \in {} |-> [R1 |-> <<>>, R2 |-> <<>>]]
    /\ csv_file = NoCsv
    /\ inference = NoInference

\* if not header: header = ""
OrEmpty(x) == IF Truthy(x) THEN x ELSE EmptyStr

\* The first row of the file.
HeaderRow(header) ==
    <<"sample", "barcode", "read1_percent", "read2_percent",
      <<"total_percent_", header>>, "total_reads", <<header, "_reads">>,
      <<"non", header, "_reads">> >>

\* The row of an adapter; a quotient n / total is kept as <<n, total>>.
AdapterRow(cs, sample_name, adapter) ==
    <<sample_name, adapter,
      <<Count(cs, Key(adapter, "_1")), cs[K_total]>>,
      <<Count(cs, Key(adapter, "_2")), cs[K_total]>>,
      <<Count(cs, Key(adapter, "")), cs[K_total]>>,
      cs[K_total], Count(cs, Key(adapter, "")), cs[K_unmatched]>>

\* DemultiplexInline.save_statistics(csv_file_path, sample_name, header):
\* open(csv_file_path, "w") creates the file, the header row is written, and
\* only then are the counters looked at; the with statement closes the file
\* on return and on exception.
save_statistics(cs, adapters, sample_name, header) ==
    LET opened == [exists |-> TRUE, open |-> FALSE,
                   rows |-> <<HeaderRow(OrEmpty(header))>>,
                   called |-> TRUE, returned |-> None, error |-> ""]
    IN  IF K_total \notin DOMAIN cs
        THEN [opened EXCEPT !.error = "KeyError: Total read count is missing."]
        ELSE IF cs[K_total] = 0
        THEN opened
        ELSE IF K_unmatched \notin DOMAIN cs
        THEN [opened EXCEPT !.error = "KeyError: Unmatched read count is missing."]
        ELSE [opened EXCEPT !.rows = @ \o [i \in DOMAIN adapters |->
                                               AdapterRow(cs, OrEmpty(sample_name),
                                                          adapters[i])],
                            !.returned = <<"csv_file_path">>]

\* The sample names and the header tags given to save_statistics.
StatsNames == {None, <<"s1">>}
StatsHeaders == {None, <<"inline">>}

\* demux.save_statistics(csv_file_path, sample_name, header), once.
SaveStatistics ==
    /\ sup.pc = "done"
    /\ ~csv_file.called
    /\ \E sample_name \in StatsNames : \E header \in StatsHeaders :
          csv_file' = save_statistics(sup.counts, Keys(cfg.barcode_dict),
                                      sample_name, header)
    /\ UNCHANGED <<cfg, inference, reader, in_queue, out_queue, pc, worker, writer, batch,
                   counts, calls, stats, files, sup, output_list, finals>>

StatsNext == SaveStatistics

StatsSpec == StatsInit /\ [][StatsNext]_vars

\* The rows of the adapters are in the file: one per adapter, in the order
\* of the adapter list.
AdapterRowsWritten ==
    /\ Len(csv_file.rows) = 1 + Len(cfg.barcode_dict)
    /\ \A i \in DOMAIN cfg.barcode_dict : csv_file.rows[i + 1][2] = cfg.barcode_dict[i][1]

\* C21, as stated: save_statistics raises the missing-counter error when
\* `total` is absent, or `unmatched` is absent and the total is not 0, and
\* returns None when the total is 0; in these cases no file exists at
\* csv_file_path afterwards, and a file exists there only with one row per
\* adapter.
StatsGuards ==
    csv_file.called =>
        /\ K_total \notin DOMAIN sup.counts =>
              csv_file.error = "KeyError: Total read count is missing." /\ ~csv_file.exists
        /\ Count(sup.counts, K_total) > 0 /\ K_unmatched \notin DOMAIN sup.counts =>
              csv_file.error = "KeyError: Unmatched read count is missing."
              /\ ~csv_file.exists
        /\ K_total \in DOMAIN sup.counts /\ sup.counts[K_total] = 0 =>
              csv_file.error = "" /\ csv_file.returned = None /\ ~csv_file.exists
        /\ csv_file.exists => AdapterRowsWritten

(***************************************************************************)
(* Properties of the canonical form of a header barcode.                   *)
(***************************************************************************)
\* The header barcode of the k-th read pair.
HeaderOf(k) == ReadPair_barcode(WorkerPairOf(k)[1], WorkerPairOf(k)[2])

\* C22, as stated: for the dual-index header barcode b of every pair a
\* dual-index worker processed, convert_barcode(convert_barcode(b)) =
\* convert_barcode(b).
CanonicalIdempotent ==
    cfg.mode = "dual" =>
        \A c \in DOMAIN calls[1] :
            dual_index_pattern(HeaderOf(calls[1][c][1])) =>
                convert_barcode(convert_barcode(HeaderOf(calls[1][c][1])))
                    = convert_barcode(HeaderOf(calls[1][c][1]))

\* The i5 of the dual index b is its own reverse complement.
SelfComplementary(b) ==
    \A i \in IndexLen + 2 .. 2 * IndexLen + 1 :
        b[i] = Complement(b[3 * IndexLen + 3 - i])

\* What holds of convert_barcode on the dual index b.
InvolutionOn(b) ==
    /\ convert_barcode(b) = Canonical(b)
    /\ dual_index_pattern(convert_barcode(b))
    /\ convert_barcode(convert_barcode(b)) = b
    /\ convert_barcode(convert_barcode(b)) = convert_barcode(b) <=> SelfComplementary(b)

\* C22, amended: for the dual-index header barcode b of every pair a
\* dual-index worker processed, convert_barcode(b) is i7, '+' and the
\* reverse complement of i5, which is a dual index again;
\* convert_barcode(convert_barcode(b)) = b; and it equals convert_barcode(b)
\* exactly when i5 is its own reverse complement.
CanonicalInvolution ==
    cfg.mode = "dual" =>
        \A c \in DOMAIN calls[1] :
            dual_index_pattern(HeaderOf(calls[1][c][1])) =>
                InvolutionOn(HeaderOf(calls[1][c][1]))

\* A dual-index worker processed a pair whose header converts to DI2, and
\* matched it, and a pair whose i5 is its own reverse complement.
CanonicalInvolution_witness ==
    /\ cfg.id = 9 /\ Len(calls[1]) = 2
    /\ calls[1][1][1] = 1 /\ calls[1][2][1] = 14
    /\ convert_barcode(HeaderOf(1)) = DI2
    /\ convert_barcode(DI2) = HeaderOf(1)
    /\ HeaderOf(1) # DI2
    /\ calls[1][1][2].barcode = DI2
    /\ convert_barcode(HeaderOf(14)) = HeaderOf(14)

(***************************************************************************)
(* Properties of the concatenation of the shards.                          *)
(***************************************************************************)
\* The barcodes the table maps to prefix p.
BarcodesOf(p) ==
    {cfg.barcode_dict[j][1] : j \in {n \in DOMAIN cfg.barcode_dict :
                                        cfg.barcode_dict[n][2] = p}}

\* The shards for prefix p: the shard of every worker for every barcode
\* mapped to p.
ShardsFor(p) == {ShardPrefix(k, i) : k \in BarcodesOf(p), i \in Workers}

\* How many times x occurs in the sequence s.
Occurrences(s, x) == Cardinality({i \in DOMAIN s : s[i] = x})

\* How many times x occurs in the R1 files (side = 1) or the R2 files (side
\* = 2) of the shards of S.
RECURSIVE ShardOccurrences(_, _, _)
ShardOccurrences(S, side, x) ==
    IF S = {} THEN 0
    ELSE The({Occurrences(IF side = 1 THEN files[sh].R1 ELSE files[sh].R2, x)
                + ShardOccurrences(S \ {sh}, side, x) : sh \in {CHOOSE y \in S : TRUE}})

\* The records of the R1 or R2 files of the shards of S.
ShardRecords(S, side) ==
    UNION {Range(IF side = 1 THEN files[sh].R1 ELSE files[sh].R2) : sh \in S}

\* The final file of side `side` of prefix p holds the records of the
\* shards for p, each as many times as the shards together hold it.
FinalIsUnion(p, side) ==
    /\ Range(IF side = 1 THEN finals[p].R1 ELSE finals[p].R2)
         = ShardRecords(ShardsFor(p), side)
    /\ \A x \in ShardRecords(ShardsFor(p), side) :
          Occurrences(IF side = 1 THEN finals[p].R1 ELSE finals[p].R2, x)
            = ShardOccurrences(ShardsFor(p), side, x)

\* C23: once prepare_concatenation has run, the shard list of every prefix
\* of the table holds the shard of every worker for every barcode mapped to
\* the prefix, each once, and no other shard; every shard exists; and the
\* records of each final R1 and R2 are the multiset union of the records of
\* the shards for its prefix, also when several barcodes share the prefix.
ConcatenationFaithful ==
    /\ sup.pc \in {"concat", "done"} \/ ~NoFinals =>
          /\ \A j \in DOMAIN cfg.barcode_dict :
                /\ HasKey(sup.prefix_dict, cfg.barcode_dict[j][2])
                /\ Lookup(sup.prefix_dict, cfg.barcode_dict[j][2])
                     = ShardsFor(cfg.barcode_dict[j][2])
                /\ Cardinality(ShardsFor(cfg.barcode_dict[j][2]))
                     = NumWorkers * Cardinality(BarcodesOf(cfg.barcode_dict[j][2]))
                /\ ShardsFor(cfg.barcode_dict[j][2]) \subseteq DOMAIN files
          /\ Len(sup.prefix_dict)
               = Cardinality({cfg.barcode_dict[j][2] : j \in DOMAIN cfg.barcode_dict})
    /\ \A p \in DOMAIN finals : FinalIsUnion(p, 1) /\ FinalIsUnion(p, 2)

\* The final pair of a prefix shared by two barcodes was written from four
\* shards: pairs of the one barcode and of the other, from both workers.
ConcatenationFaithful_witness ==
    /\ cfg.id = 2
    /\ <<"p1">> \in DOMAIN finals
    /\ Cardinality(ShardsFor(<<"p1">>)) = 4
    /\ Len(finals[<<"p1">>].R1) = MaxPairs
    /\ \A w \in Workers : calls[w] # <<>>
    /\ \E w \in Workers : files[ShardPrefix(AD1, w)].R1 # <<>>
    /\ \E w \in Workers : files[ShardPrefix(AD2, w)].R1 # <<>>

\* The call of Writer.write that wrote record x, as <<worker, index>>.
WrittenBy(x) ==
    CHOOSE c \in AllCalls : calls[c[1]][c[2]][1] = x.name.ident /\ calls[c[1]][c[2]][3]

\* The records of the sequence s that come from shards of one barcode are
\* in the order of their workers.
InWorkerOrder(s) ==
    \A a, b \in DOMAIN s :
        (a < b /\ calls[WrittenBy(s[a])[1]][WrittenBy(s[a])[2]][2]
                    = calls[WrittenBy(s[b])[1]][WrittenBy(s[b])[2]][2])
            => WrittenBy(s[a])[1] <= WrittenBy(s[b])[1]

\* C24, as stated: in every final R1 and R2 file the shards of a barcode
\* are appended in worker order: the records of worker i come before the
\* records of worker j when i < j.
ConcatenationOrder ==
    \A p \in DOMAIN finals :
        /\ InWorkerOrder(finals[p].R1)
        /\ InWorkerOrder(finals[p].R2)

(***************************************************************************)
(* The life of the shard files.                                            *)
(***************************************************************************)
\* C25, as stated: a shard file exists only when its worker has written a
\* pair to it, and after a successful run no shard file is left: the final
\* output pairs are the only files.
ShardLifecycle ==
    /\ \A p \in DOMAIN files : files[p].R1 # <<>>
    /\ sup.pc = "done" => DOMAIN files = {}

(***************************************************************************)
(* The distribution of the batches over the workers.                       *)
(***************************************************************************)
\* The number of batches the workers have processed: in a complete run, the
\* number of batches the reader enqueued.
BatchesProcessed == SeqSum([w \in Workers |-> stats[w].batch_count])

\* C26, as stated: in a complete run of at least as many batches as there
\* are workers, every worker has processed at least 1 batch and at most
\* ceil(N / W) batches, N being the number of batches and W the number of
\* workers.
BatchDistribution ==
    (AllReturned /\ BatchesProcessed >= NumWorkers) =>
        \A w \in Workers :
            /\ stats[w].batch_count >= 1
            /\ stats[w].batch_count <= (BatchesProcessed + NumWorkers - 1) \div NumWorkers

(***************************************************************************)
(* Reads that begin with no adapter, and the NO_MATCH sentinel.            *)
(***************************************************************************)
\* For each inline adapter and each sequence, the least edit distance of the
\* adapter to a prefix of the first 20 bases of the sequence, computed once.
PrefixDistances ==
    [a \in AdaptersOf("inline") |->
        [s \in DOMAIN WorkerSeqs |->
            SetMin({editdistance(a, TakeFirst(WorkerSeqs[s], n)) :
                      n \in 0 .. Min2(Len(WorkerSeqs[s]), ProbeLen)})]]

\* The read begins with adapter a within the error threshold: a prefix of
\* its first 20 bases is within floor(|a| * error_rate) edits of a.
BeginsWith(read, a) ==
    PrefixDistances[a][CHOOSE s \in DOMAIN WorkerSeqs : WorkerSeqs[s] = read.sequence]
        <= MaxErrors(a)

\* The adapters of the table: its keys other than the NO_MATCH sentinel.
TableAdapters == Range(Keys(cfg.barcode_dict)) \ {BARCODE_NOT_MATCHED}

\* No read of the k-th pair begins with an adapter of the table.
NoAdapterAtStart(k) ==
    \A a \in TableAdapters :
        ~BeginsWith(WorkerPairOf(k)[1], a) /\ ~BeginsWith(WorkerPairOf(k)[2], a)

\* C27, as stated: when no read an inline worker was given begins with an
\* adapter within the error threshold, every pair was emitted under
\* NO_MATCH with both reads as they came, `matched` is 0 and `unmatched` is
\* the number of pairs processed.
RoundTripInline ==
    (cfg.mode = "inline" /\ \A c \in DOMAIN calls[1] : NoAdapterAtStart(calls[1][c][1]))
        => /\ \A c \in DOMAIN calls[1] :
                 /\ calls[1][c][2].barcode = BARCODE_NOT_MATCHED
                 /\ calls[1][c][2].read1 = WorkerPairOf(calls[1][c][1])[1]
                 /\ calls[1][c][2].read2 = WorkerPairOf(calls[1][c][1])[2]
           /\ Count(counts[1], K_matched) = 0
           /\ Count(counts[1], K_unmatched) = Len(calls[1])

(***************************************************************************)
(* The counters of a worker during a batch.                                *)
(***************************************************************************)
\* The pairs worker w has counted as matched or as unmatched.
Counted(w) == Count(counts[w], K_matched) + Count(counts[w], K_unmatched)

\* The pairs worker w has counted in `total`.
Totalled(w) == Count(counts[w], K_total)

\* C28: `total` of a worker never exceeds matched + unmatched, lags by at
\* most the size of the batch in progress and by nothing between batches;
\* every pair processed so far is counted and was handed to the writer, and
\* a worker that left in the middle of a batch keeps the pairs of that
\* batch counted but neither in `total` nor in the progress queue, which
\* holds exactly the batches that were finished.
CounterLag ==
    /\ \A w \in Workers :
          /\ Totalled(w) <= Counted(w)
          /\ Counted(w) - Totalled(w) <= Len(batch[w].reads)
          /\ pc[w] \in {"start", "get", "returned"} => Counted(w) = Totalled(w)
          /\ Counted(w) = Len(calls[w])
          /\ pc[w] = "failed" => Counted(w) - Totalled(w) \in {batch[w].i - 1, batch[w].i}
          /\ pc[w] = "batch" => Counted(w) - Totalled(w) = batch[w].i - 1
    /\ SeqSum(out_queue) = SeqSum([w \in Workers |-> Totalled(w)])

\* A worker has left in the middle of a batch after processing a pair of it.
CounterLag_witness ==
    \E w \in Workers :
        /\ pc[w] = "failed"
        /\ batch[w].i > 1
        /\ batch[w].i <= Len(batch[w].reads)
        /\ Counted(w) > Totalled(w)
        /\ \E c \in DOMAIN calls[w] : calls[w][c][3]

(***************************************************************************)
(* The mates of a pair in the final files.                                 *)
(***************************************************************************)
\* The records x and y are read 1 and read 2 of one input pair, as
\* process_read_pair emitted them.
Mates(x, y) ==
    \E k \in Kinds :
        /\ x = ProcessPair(cfg.id, x.name.ident, k).read1
        /\ y = ProcessPair(cfg.id, x.name.ident, k).read2

\* C29: in every shard and in every final pair the R1 file and the R2 file
\* have the same number of records, and the k-th record of the one and the
\* k-th record of the other are the two mates of one input pair.
MateAlignment ==
    /\ \A f \in DOMAIN files :
          /\ Len(files[f].R1) = Len(files[f].R2)
          /\ \A k \in DOMAIN files[f].R1 : Mates(files[f].R1[k], files[f].R2[k])
    /\ \A p \in DOMAIN finals :
          /\ Len(finals[p].R1) = Len(finals[p].R2)
          /\ \A k \in DOMAIN finals[p].R1 : Mates(finals[p].R1[k], finals[p].R2[k])

\* A run is complete with a final pair of two or more records that come
\* from shards of both workers.
MateAlignment_witness ==
    /\ sup.pc = "done"
    /\ \E p \in DOMAIN finals :
          /\ Len(finals[p].R1) >= 2
          /\ \A w \in Workers :
                \E k \in DOMAIN finals[p].R1 :
                    \E c \in DOMAIN calls[w] :
                        calls[w][c][1] = finals[p].R1[k].name.ident /\ calls[w][c][3]

\* C30, as stated: a pair is emitted under NO_MATCH exactly when it
\* incremented `unmatched`, and the counter of the NO_MATCH key is never
\* incremented: no read and no header barcode is accepted against it.
SentinelSeparation ==
    /\ \A c \in DOMAIN calls[1] :
          calls[1][c][2].error = "" =>
             /\ calls[1][c][2].barcode = BARCODE_NOT_MATCHED
                   <=> Increments(calls[1][c][2], K_unmatched) = 1
             /\ \A i \in DOMAIN calls[1][c][2].counts :
                   calls[1][c][2].counts[i][1] # BARCODE_NOT_MATCHED
    /\ Count(counts[1], Key(BARCODE_NOT_MATCHED, "")) = 0

(***************************************************************************)
(* DemultiplexDualIndex.determine_adapters: the adapters of demux_barcode  *)
(* when no --barcode is given.                                             *)
(***************************************************************************)
\* if counter > 3000: break
SAMPLE_LIMIT == 3000

\* The largest R1 file of the runs, in records.
MaxRecords == 3002

\* The sizes of the R1 files: empty, short, and around the limit.
FileSizes == {0, 1, 2, SAMPLE_LIMIT - 1, SAMPLE_LIMIT, SAMPLE_LIMIT + 1, MaxRecords}

\* read1.name.strip().split(":")[-1] of the i-th record of the file: a dual
\* index, a barcode that is no dual index, another dual index, in turn.
HeaderBarcode(i) ==
    WorkerBarcodes[IF i % 3 = 1 THEN 1 ELSE IF i % 3 = 2 THEN 7 ELSE 5]

\* c = barcode_counts.get(barcode, 0); c += 1; barcode_counts[barcode] = c
count_barcode(barcode_counts, barcode) ==
    DictSet(barcode_counts, barcode,
            (IF HasKey(barcode_counts, barcode) THEN Lookup(barcode_counts, barcode)
             ELSE 0) + 1)

\* The sum of the counts of a dictionary of barcode counts.
CountSum(barcode_counts) ==
    SeqSum([i \in DOMAIN barcode_counts |-> barcode_counts[i][2]])

InferInit ==
    /\ cfg = WorkerConfigs[9]
    /\ reader = [pc |-> "idle", pairs |-> 0, poisons |-> 0]
    /\ in_queue = <<>>
    /\ out_queue = <<>>
    /\ pc = [w \in Workers |-> "new"]
    /\ worker = [w \in Workers |-> NoWorker]
    /\ writer = [w \in Workers |-> Writer_init(<<>>)]
    /\ batch = [w \in Workers |-> [reads |-> <<>>, i |-> 1]]
    /\ counts = [w \in Workers |-> EmptyCounts]
    /\ calls = [w \in Workers |-> <<>>]
    /\ stats = [w \in Workers |-> [batch_count |-> 0, entered |-> FALSE,
                                   raised |-> "", error |-> ""]]
    /\ files = EmptyFiles
    /\ sup = [pc |-> "start", counts |-> EmptyCounts, prefix_dict |-> <<>>, k |-> 1,
              error |-> "", signals |-> 0]
    /\ output_list = <<>>
    /\ finals = [x \in {} |-> [R1 |-> <<>>, R2 |-> <<>>]]
    /\ csv_file = NoCsv
    /\ inference = NoInference

\* barcode_counts = dict(); counter = 0; with dnaio.open(r1) as fastq_in
DetermineOpen ==
    /\ inference.pc = "idle"
    /\ \E size \in FileSizes :
          inference' = [inference EXCEPT !.pc = "loop", !.size = size]
    /\ UNCHANGED <<cfg, csv_file, reader, in_queue, out_queue, pc, worker, writer, batch,
                   counts, calls, stats, files, sup, output_list, finals>>

\* One iteration of `for read1 in fastq_in`: the barcode of the header is
\* made canonical and counted, then counter += 1 and the loop is left when
\* counter > 3000.
DetermineRead ==
    /\ inference.pc = "loop"
    /\ inference.read < inference.size
    /\ inference' =
          [inference EXCEPT
              !.read = @ + 1,
              !.barcode_counts =
                  count_barcode(@, Canonical(HeaderBarcode(inference.read + 1))),
              !.counter = @ + 1,
              !.pc = IF inference.counter + 1 > SAMPLE_LIMIT THEN "select" ELSE "loop"]
    /\ UNCHANGED <<cfg, csv_file, reader, in_queue, out_queue, pc, worker, writer, batch,
                   counts, calls, stats, files, sup, output_list, finals>>

\* The file has no more records: the loop ends.
DetermineEnd ==
    /\ inference.pc = "loop"
    /\ inference.read = inference.size
    /\ inference' = [inference EXCEPT !.pc = "select"]
    /\ UNCHANGED <<cfg, csv_file, reader, in_queue, out_queue, pc, worker, writer, batch,
                   counts, calls, stats, files, sup, output_list, finals>>

\* barcode_list = BarcodeStatistics(barcode_counts).major_barcodes(): the
\* counts are handed over and some of the barcodes counted come back.
MajorBarcodes ==
    /\ inference.pc = "select"
    /\ \E major \in SUBSET Range(Keys(inference.barcode_counts)) :
          inference' = [inference EXCEPT !.pc = "done",
                                         !.handed = inference.barcode_counts,
                                         !.barcode_list = major]
    /\ UNCHANGED <<cfg, csv_file, reader, in_queue, out_queue, pc, worker, writer, batch,
                   counts, calls, stats, files, sup, output_list, finals>>

InferNext == DetermineOpen \/ DetermineRead \/ DetermineEnd \/ MajorBarcodes

InferSpec == InferInit /\ [][InferNext]_vars

\* C31, as stated: the counts handed to the selection of the major barcodes
\* sum to at most 3,000, no more than 3,000 headers were read, and the sum
\* is the number of records of a file of fewer than 3,000.
InferenceBound ==
    inference.pc = "done" =>
        /\ inference.read <= SAMPLE_LIMIT
        /\ CountSum(inference.handed) <= SAMPLE_LIMIT
        /\ inference.size < SAMPLE_LIMIT => CountSum(inference.handed) = inference.size

=============================================================================
